---- MODULE Spec2Model ----
(***************************************************************************)
(* A model of crun-jwt-node-proxy: the JwtService (key discovery, key      *)
(* cache, token verification), the JwtValidator claim filter and mapper,   *)
(* and the request pipeline of createProxyServer.                          *)
(*                                                                         *)
(* Optional values (TypeScript `x?: T`, `T | undefined`) are sets: {} is   *)
(* undefined, {v} is the value v.  Date.now() is the variable now, in      *)
(* milliseconds.                                                           *)
(***************************************************************************)
EXTENDS Integers, Sequences, FiniteSets, TLC

VARIABLES
  options,      \* the options object handed to `new JwtService(options)`
  svc,          \* the JwtService's readonly fields, set by its constructor
  jwksUri,      \* JwtService.jwksUri
  keyCache,     \* JwtService.keyCache: key id -> optional {key, cachedAt}
  configCache,  \* JwtService.configCache: optional {config, cachedAt}
  now,          \* Date.now(), milliseconds
  config,       \* the ConfigData handed to createProxyServer
  calls,        \* the validateToken calls (and the requests that made them)
  jwtValidator, \* a JwtValidator built on its own: optional {filter, mapper}
  returned      \* what the last direct call of a helper function returned

vars == <<options, svc, jwksUri, keyCache, configCache, now, config, calls,
          jwtValidator, returned>>

----------------------------------------------------------------------------
(* Bounds of the model *)

\* validateToken calls (requests) that may be in flight together
MaxCalls == 2
\* the clock of the key-cache specification runs from 0 to MaxClock ms
MaxClock == 3

----------------------------------------------------------------------------
(* Optional values *)

None == {}
Some(x) == {x}
Get(o) == CHOOSE x \in o : TRUE

\* JavaScript `o || d` for an optional number: undefined and 0 are falsy
OrDefault(o, d) == IF o = None \/ o = Some(0) THEN d ELSE Get(o)

----------------------------------------------------------------------------
(* Program constants *)

DefaultClockTolerance == 30
DefaultMaxCacheAge == 3600000
MsPerSecond == 1000
SecretLifetime == 3600

Issuer == "https://issuer"
Audience == "aud"
JwksUris == {"https://issuer/jwks"}
Kids == {"k1", "k2"}

----------------------------------------------------------------------------
(* Strings are sequences of characters.  A claim value is a JavaScript     *)
(* value: type is what typeof and Array.isArray tell of it, str the text   *)
(* of a string, num the value of a number (a natural number here), items   *)
(* the elements of an array or the entries of an object.                   *)

\* String.prototype.startsWith
StartsWith(str, prefix) ==
  /\ Len(prefix) <= Len(str)
  /\ SubSeq(str, 1, Len(prefix)) = prefix

Item(key, type, str, num) ==
  [key |-> key, type |-> type, str |-> str, num |-> num]
StrItem(s) == Item(<<>>, "string", s, 0)
NumItem(n) == Item(<<>>, "number", <<>>, n)
Entry(key, s) == Item(key, "string", s, 0)

JsValue(type, str, num, items) ==
  [type |-> type, str |-> str, num |-> num, items |-> items]
Str(s) == JsValue("string", s, 0, <<>>)
Num(n) == JsValue("number", <<>>, n, <<>>)
Arr(items) == JsValue("array", <<>>, 0, items)
Obj(entries) == JsValue("object", <<>>, 0, entries)
Null == JsValue("null", <<>>, 0, <<>>)
\* an array element as a value of its own
Scalar(item) == JsValue(item.type, item.str, item.num, <<>>)

Digits == <<"0", "1", "2", "3", "4", "5", "6", "7", "8", "9">>
IsDigit(ch) == \E d \in 1..Len(Digits) : Digits[d] = ch
DigitValue(ch) == (CHOOSE d \in 1..Len(Digits) : Digits[d] = ch) - 1

RECURSIVE NumberToString(_)
\* Number.prototype.toString of a natural number
NumberToString(n) ==
  IF n < Len(Digits) THEN <<Digits[n + 1]>>
  ELSE NumberToString(n \div Len(Digits)) \o <<Digits[(n % Len(Digits)) + 1]>>

RECURSIVE DigitsValue(_)
DigitsValue(s) ==
  IF s = <<>> THEN 0
  ELSE DigitsValue(SubSeq(s, 1, Len(s) - 1)) * Len(Digits)
         + DigitValue(s[Len(s)])

RECURSIVE Trim(_)
\* String.prototype.trim for blanks
Trim(s) ==
  IF s # <<>> /\ s[1] = " " THEN Trim(Tail(s))
  ELSE IF s # <<>> /\ s[Len(s)] = " " THEN Trim(SubSeq(s, 1, Len(s) - 1))
  ELSE s

\* ToNumber of a string (ECMAScript StringToNumber) over blanks, decimal
\* digits, '.' and letters: blanks are trimmed, the empty string is 0, a
\* decimal literal whose fraction is zero is its integer part; None stands
\* for NaN and for every number that is not a natural number
StringToNumber(s) ==
  LET t == Trim(s)
      dots == {i \in 1..Len(t) : t[i] = "."}
      numeric == \A i \in 1..Len(t) : IsDigit(t[i]) \/ t[i] = "."
  IN IF t = <<>> THEN Some(0)
     ELSE IF ~numeric \/ Cardinality(dots) > 1 \/ t = <<".">> THEN None
     ELSE IF dots = {} THEN Some(DigitsValue(t))
     ELSE LET dot == CHOOSE i \in dots : TRUE
              fraction == SubSeq(t, dot + 1, Len(t))
          IN IF \A i \in 1..Len(fraction) : fraction[i] = "0"
               THEN Some(DigitsValue(SubSeq(t, 1, dot - 1)))
               ELSE None

RECURSIVE Join(_, _)
\* Array.prototype.join of scalar elements
Join(items, separator) ==
  IF items = <<>> THEN <<>>
  ELSE LET text == IF items[1].type = "number"
                     THEN NumberToString(items[1].num) ELSE items[1].str
       IN IF Len(items) = 1 THEN text
          ELSE text \o separator \o Join(Tail(items), separator)

\* value.toString()
toString(value) ==
  CASE value.type = "string" -> value.str
    [] value.type = "number" -> NumberToString(value.num)
    [] value.type = "array" -> Join(value.items, <<",">>)
    [] value.type = "object" -> <<"[object Object]">>

RECURSIVE JsonItems(_, _)
\* the members of a JSON array or object, comma separated
JsonItems(items, keyed) ==
  IF items = <<>> THEN <<>>
  ELSE LET text == IF items[1].type = "number"
                     THEN NumberToString(items[1].num)
                     ELSE <<"\"">> \o items[1].str \o <<"\"">>
           member == IF keyed
                       THEN <<"\"">> \o items[1].key \o <<"\"", ":">> \o text
                       ELSE text
       IN IF Len(items) = 1 THEN member
          ELSE member \o <<",">> \o JsonItems(Tail(items), keyed)

\* JSON.stringify(value) (no character of the model's alphabet is escaped)
JsonStringify(value) ==
  CASE value.type = "string" -> <<"\"">> \o value.str \o <<"\"">>
    [] value.type = "number" -> NumberToString(value.num)
    [] value.type = "null" -> <<"n", "u", "l", "l">>
    [] value.type = "array" ->
         <<"[">> \o JsonItems(value.items, FALSE) \o <<"]">>
    [] value.type = "object" ->
         <<"{">> \o JsonItems(value.items, TRUE) \o <<"}">>

\* entry == value of a claim value and a string: strings compare as they
\* are, a number compares with ToNumber of the string, an object with its
\* primitive (its string form)
LooseEquals(entry, value) ==
  CASE entry.type = "string" -> entry.str = value
    [] entry.type = "number" -> StringToNumber(value) = Some(entry.num)
    [] OTHER -> toString(entry) = value

RECURSIVE MatchHere(_, _)
\* the pattern matches a prefix of the text; the pattern language is the
\* part of RegExp made of literal characters, '.', '*' after a character,
\* and a final '$'
MatchHere(re, text) ==
  IF re = <<>> THEN TRUE
  ELSE IF Len(re) >= 2 /\ re[2] = "*"
    THEN \E k \in 0..Len(text) :
           /\ \A i \in 1..k : re[1] = "." \/ re[1] = text[i]
           /\ MatchHere(SubSeq(re, 3, Len(re)), SubSeq(text, k + 1, Len(text)))
  ELSE IF re = <<"$">> THEN text = <<>>
  ELSE /\ text # <<>>
       /\ re[1] = "." \/ re[1] = text[1]
       /\ MatchHere(Tail(re), Tail(text))

\* RegExp.prototype.test: the pattern matches somewhere in the text, at its
\* start when the pattern begins with '^'
RegExpTest(pattern, text) ==
  IF pattern # <<>> /\ pattern[1] = "^" THEN MatchHere(Tail(pattern), text)
  ELSE \E k \in 0..Len(text) :
         MatchHere(pattern, SubSeq(text, k + 1, Len(text)))

----------------------------------------------------------------------------
(* Tokens.  A token is the bearer string together with what jwt.decode     *)
(* finds in it: wellFormed is whether it decodes as a three-part JWT; kid  *)
(* is the header's key id; iss, aud, exp, nbf and role are payload claims; *)
(* signer is the key material (the modulus n) of the private key that      *)
(* signed it.  text is the raw string of a token that is not a JWT.  role   *)
(* is a claim value as defined below.                                      *)

Token(wf, text, kid, iss, aud, exp, nbf, signer, role) ==
  [wellFormed |-> wf, text |-> text, kid |-> kid, iss |-> iss, aud |-> aud,
   exp |-> exp, nbf |-> nbf, signer |-> signer, role |-> role]

\* a string that is not a JWT
Opaque(text) == Token(FALSE, text, None, None, None, None, None, 0, None)

\* the epoch second the verification specification runs at
VerifyEpoch == 100

\* the role claim's values
Admin == Str(<<"a", "d", "m", "i", "n">>)
User == Str(<<"u", "s", "e", "r">>)

JwtTokens ==
  { Token(TRUE, "jwt", kid, iss, aud, exp, nbf, signer, role) :
      kid \in {Some("k1")},
      iss \in {None, Some(Issuer), Some("https://evil")},
      aud \in {Some(Audience), Some("other")},
      exp \in {None, Some(VerifyEpoch - 30), Some(VerifyEpoch - 29),
               Some(VerifyEpoch - 1), Some(VerifyEpoch)},
      nbf \in {None, Some(VerifyEpoch + 1), Some(VerifyEpoch + 2),
               Some(VerifyEpoch + 31)},
      signer \in {1, 2},
      role \in {None, Some(Admin), Some(User)} }

GoodToken(kid, iss) ==
  Token(TRUE, "jwt", kid, iss, Some(Audience), Some(VerifyEpoch), None, 1,
        Some(Admin))

\* the tokens of the key-cache specification: every way to stop before or
\* in key resolution, and a token that passes verification
CoreTokens ==
  {Opaque("garbage")}
    \cup { GoodToken(kid, iss) :
             kid \in {None, Some("k1"), Some("k2")},
             iss \in {None, Some(Issuer)} }

\* The verified payload jwt.verify returns: the claims present in the token
Payload(t) ==
  [f \in {g \in {"iss", "aud", "exp", "nbf", "role"} : t[g] # None}
     |-> Get(t[f])]

----------------------------------------------------------------------------
(* JwtValidator (src/src/jwt/validator.ts) *)

\* constructor: one matcher per filter entry, in configuration order; a
\* value starting with '/' is a regex (its first and last character cut)
JwtValidatorNew(jwtConfig) ==
  [filter |-> [i \in 1..Len(jwtConfig.filter) |->
                 LET e == jwtConfig.filter[i] IN
                 IF StartsWith(e.value, <<"/">>)
                   THEN [field |-> e.field,
                         regex |-> Some(SubSeq(e.value, 2, Len(e.value) - 1)),
                         value |-> None]
                   ELSE [field |-> e.field, regex |-> None,
                         value |-> Some(e.value)]],
   mapper |-> jwtConfig.mapper]

\* isEmpty of jlog-facade: null, the empty string, the empty array and the
\* object without keys (undefined is the field missing from the claims)
IsEmpty(entry) ==
  \/ entry.type = "null"
  \/ entry.type = "string" /\ entry.str = <<>>
  \/ entry.type \in {"array", "object"} /\ entry.items = <<>>

\* validateEntry: a regex matcher tests the string form, a value matcher
\* compares with ==
validateEntry(entry, matcher) ==
  IF matcher.regex # None THEN RegExpTest(Get(matcher.regex), toString(entry))
  ELSE IF matcher.value # None THEN LooseEquals(entry, Get(matcher.value))
  ELSE TRUE

RECURSIVE ValidateSkippingAbsent(_, _, _)
\* a validate that passes over a matcher whose field is missing
ValidateSkippingAbsent(filter, input, i) ==
  IF i > Len(filter) THEN <<>>
  ELSE LET matcher == filter[i] IN
       IF matcher.field \notin DOMAIN input \/ IsEmpty(input[matcher.field])
         THEN ValidateSkippingAbsent(filter, input, i + 1)
       ELSE LET entry == input[matcher.field] IN
            IF entry.type = "array"
              THEN IF \E k \in 1..Len(entry.items) :
                        validateEntry(Scalar(entry.items[k]), matcher)
                     THEN ValidateSkippingAbsent(filter, input, i + 1)
                     ELSE <<"Array ", JsonStringify(entry),
                            " did not match '", matcher.field, "'">>
            ELSE IF ~validateEntry(entry, matcher)
              THEN <<"Entry '", toString(entry), "' for '", matcher.field,
                     "' failed matcher">>
            ELSE ValidateSkippingAbsent(filter, input, i + 1)

RECURSIVE ValidateReportingLast(_, _, _)
\* a validate that runs every matcher and reports the last failure
ValidateReportingLast(filter, input, i) ==
  IF i > Len(filter) THEN <<>>
  ELSE LET matcher == filter[i]
           rest == ValidateReportingLast(filter, input, i + 1)
       IN IF rest # <<>> THEN rest
          ELSE IF matcher.field \notin DOMAIN input
                    \/ IsEmpty(input[matcher.field])
            THEN <<"No '", matcher.field, "' found in JWT claim">>
          ELSE LET entry == input[matcher.field] IN
               IF entry.type = "array"
                 THEN IF \E k \in 1..Len(entry.items) :
                           validateEntry(Scalar(entry.items[k]), matcher)
                        THEN <<>>
                        ELSE <<"Array ", JsonStringify(entry),
                               " did not match '", matcher.field, "'">>
               ELSE IF ~validateEntry(entry, matcher)
                 THEN <<"Entry '", toString(entry), "' for '", matcher.field,
                        "' failed matcher">>
               ELSE <<>>

RECURSIVE ValidateEveryElement(_, _, _)
\* a validate that wants every element of an array to match
ValidateEveryElement(filter, input, i) ==
  IF i > Len(filter) THEN <<>>
  ELSE LET matcher == filter[i] IN
       IF matcher.field \notin DOMAIN input \/ IsEmpty(input[matcher.field])
         THEN <<"No '", matcher.field, "' found in JWT claim">>
       ELSE LET entry == input[matcher.field] IN
            IF entry.type = "array"
              THEN IF \A k \in 1..Len(entry.items) :
                        validateEntry(Scalar(entry.items[k]), matcher)
                     THEN ValidateEveryElement(filter, input, i + 1)
                     ELSE <<"Array ", JsonStringify(entry),
                            " did not match '", matcher.field, "'">>
            ELSE IF ~validateEntry(entry, matcher)
              THEN <<"Entry '", toString(entry), "' for '", matcher.field,
                     "' failed matcher">>
            ELSE ValidateEveryElement(filter, input, i + 1)

RECURSIVE ValidateFrom(_, _, _)
\* validate's loop from matcher i on: the message of the first failing
\* matcher, in its pieces, or <<>> when all pass
ValidateFrom(filter, input, i) ==
  IF i > Len(filter) THEN <<>>
  ELSE LET matcher == filter[i] IN
       IF matcher.field \notin DOMAIN input \/ IsEmpty(input[matcher.field])
         THEN <<"No '", matcher.field, "' found in JWT claim">>
       ELSE LET entry == input[matcher.field] IN
            IF entry.type = "array"
              THEN IF \E k \in 1..Len(entry.items) :
                        validateEntry(Scalar(entry.items[k]), matcher)
                     THEN ValidateFrom(filter, input, i + 1)
                     ELSE <<"Array ", JsonStringify(entry),
                            " did not match '", matcher.field, "'">>
            ELSE IF ~validateEntry(entry, matcher)
              THEN <<"Entry '", toString(entry), "' for '", matcher.field,
                     "' failed matcher">>
            ELSE ValidateFrom(filter, input, i + 1)

\* validate(input): the message of the error thrown, <<>> when it returns
Validate(validator, input) ==
  IF input = None THEN <<"No JWT claim provided for validation">>
  ELSE ValidateFrom(validator.filter, Get(input), 1)

\* the header value map() writes for a claim value
Project(entry) ==
  IF entry.type = "array" THEN Join(entry.items, <<",">>)
  ELSE IF entry.type \in {"object", "null"} THEN JsonStringify(entry)
  ELSE toString(entry)

\* a map that writes an empty header for a missing source field
MapAbsentAsEmpty(validator, input) ==
  IF input = None THEN [h \in {} |-> <<>>]
  ELSE LET claims == Get(input)
           all == 1..Len(validator.mapper)
       IN [h \in {validator.mapper[i].header : i \in all} |->
             LET i == CHOOSE j \in all :
                        /\ validator.mapper[j].header = h
                        /\ \A k \in all :
                             validator.mapper[k].header = h => k <= j
             IN IF validator.mapper[i].field \in DOMAIN claims
                  THEN Project(claims[validator.mapper[i].field])
                  ELSE <<>>]

\* map: one header per mapper entry whose source field is present; a later
\* entry with the same header overwrites an earlier one
Map(validator, input) ==
  IF input = None THEN [h \in {} |-> <<>>]
  ELSE LET claims == Get(input)
           present == {i \in 1..Len(validator.mapper) :
                         validator.mapper[i].field \in DOMAIN claims}
       IN [h \in {validator.mapper[i].header : i \in present} |->
             LET i == CHOOSE j \in present :
                        /\ validator.mapper[j].header = h
                        /\ \A k \in present :
                             validator.mapper[k].header = h => k <= j
             IN Project(claims[validator.mapper[i].field])]

----------------------------------------------------------------------------
(* JwtService (src/src/services/jwt.service.ts) *)

\* constructor
JwtServiceNew(opts) ==
  [issuer |-> opts.issuer,
   audience |-> opts.audience,
   clockTolerance |-> OrDefault(opts.clockTolerance, DefaultClockTolerance),
   maxCacheAge |-> OrDefault(opts.maxCacheAge, DefaultMaxCacheAge),
   validator |-> opts.validator]

\* jwkToPem: only an RSA key with n and e converts; the PEM armours the DER
\* encoding of (n, e)
JwkConvertible(jwk) == jwk.kty = "RSA" /\ jwk.n # None /\ jwk.e # None

jwkToPem(jwk) ==
  [armor |-> "PUBLIC KEY", der |-> <<Get(jwk.n), Get(jwk.e)>>]

RsaJwk(kid, n) == [kty |-> "RSA", kid |-> kid, n |-> Some(n), e |-> Some(65537)]

\* the JWKS documents the JWKS endpoint may answer with
JwksDocs ==
  { <<RsaJwk("k1", 1)>>,
    <<RsaJwk("k1", 2)>>,
    <<RsaJwk("k2", 3), RsaJwk("k1", 1)>>,
    <<[kty |-> "EC", kid |-> "k1", n |-> None, e |-> None]>>,
    <<[kty |-> "RSA", kid |-> "k1", n |-> None, e |-> Some(65537)]>>,
    <<>> }

\* what fetchJson settles with: the parsed body, or a rejection
FetchFailures == {"Request timeout", "Request failed", "HTTP 500",
                  "Failed to parse JSON response"}

DiscoveryOutcomes ==
  { [ok |-> TRUE, jwks_uri |-> Some(u), error |-> ""] : u \in JwksUris }
    \cup { [ok |-> TRUE, jwks_uri |-> None, error |-> ""] }
    \cup { [ok |-> FALSE, jwks_uri |-> None, error |-> e] : e \in FetchFailures }

JwksOutcomes ==
  { [ok |-> TRUE, keys |-> d, error |-> ""] : d \in JwksDocs }
    \cup { [ok |-> FALSE, keys |-> <<>>, error |-> e] : e \in FetchFailures }

\* a find that takes the first key of the set whatever its kid
FindFirstKey(keys, keyId) ==
  IF keys = <<>> THEN None ELSE Some(keys[1])

\* Array.prototype.find: the first entry whose kid is keyId
FindKey(keys, keyId) ==
  LET hits == {i \in 1..Len(keys) : keys[i].kid = keyId}
  IN IF hits = {} THEN None
     ELSE Some(keys[CHOOSE i \in hits : \A j \in hits : i <= j])

\* jwt.verify with ignoreExpiration taken to switch off every claim check
JwtVerifySignatureAlone(t, publicKey, service, signatureOnly, clock) ==
  LET clockTimestamp == clock \div MsPerSecond
      tol == service.clockTolerance
  IN IF publicKey.der[1] # t.signer THEN "invalid signature"
     ELSE IF signatureOnly THEN ""
     ELSE IF t.nbf # None /\ Get(t.nbf) > clockTimestamp + tol
       THEN "jwt not active"
     ELSE IF t.exp # None /\ clockTimestamp >= Get(t.exp) + tol
       THEN "jwt expired"
     ELSE IF service.audience # None /\ t.aud # service.audience
       THEN "jwt audience invalid"
     ELSE IF t.iss # Some(service.issuer) THEN "jwt issuer invalid"
     ELSE ""

\* jwt.verify(token, publicKey, verifyOptions) of jsonwebtoken: the message
\* of the error it throws, or "" when it returns the payload.  The clock is
\* floor(Date.now() / 1000).
JwtVerify(t, publicKey, service, signatureOnly, clock) ==
  LET clockTimestamp == clock \div MsPerSecond
      tol == service.clockTolerance
  IN IF publicKey.der[1] # t.signer THEN "invalid signature"
     ELSE IF t.nbf # None /\ Get(t.nbf) > clockTimestamp + tol
       THEN "jwt not active"
     ELSE IF t.exp # None /\ ~signatureOnly /\ clockTimestamp >= Get(t.exp) + tol
       THEN "jwt expired"
     ELSE IF service.audience # None /\ t.aud # service.audience
       THEN "jwt audience invalid"
     ELSE IF t.iss # Some(service.issuer) THEN "jwt issuer invalid"
     ELSE ""


----------------------------------------------------------------------------
(* validateToken calls.  A call is cut where the code awaits: each action  *)
(* is one run-to-completion segment of the event loop.                     *)
(*   pc: idle -> discovering -> discovered -> fetchingJwks -> gotKey ->    *)
(*       done (-> closed, for a call made by the request pipeline)         *)
(* nDiscovery, nJwks, cacheReads, cacheWrites count what the call did;     *)
(* steps lists the checks it ran; hitAge is the age of the cache entry it  *)
(* was served from; verifiedAt is Date.now() when jwt.verify ran.          *)
(* signatureOnly and keyOption are the call's options.signatureOnly and    *)
(* options.publicKey.                                                      *)

\* no synchronous operation has returned since the last validateToken call
NotCalled == [op |-> "none"]

IdleCall ==
  [pc |-> "idle", via |-> "none", token |-> None, signatureOnly |-> FALSE,
   keyOption |-> None, keyId |-> None, publicKey |-> None, result |-> None,
   nDiscovery |-> 0, nJwks |-> 0, cacheReads |-> 0, cacheWrites |-> 0,
   steps |-> <<>>, hitAge |-> None, verifiedAt |-> None,
   afterClear |-> FALSE, req |-> None, out |-> None]

\* the call is between getPublicKey's cache miss and its keyCache.set
Resolving(call) == call.pc \in {"discovering", "discovered", "fetchingJwks"}

NoClaims == [f \in {} |-> 0]

\* the catch of validateToken: the promise rejects with the message of the
\* caught error behind the prefix
Rejected(call, message) ==
  [call EXCEPT !.pc = "done",
               !.result = Some([ok |-> FALSE,
                                error |-> <<"JWT validation failed: ">>
                                            \o message,
                                claims |-> NoClaims])]

\* validateToken returns the claims
Resolved(call, claims) ==
  [call EXCEPT !.pc = "done",
               !.result = Some([ok |-> TRUE, error |-> <<>>, claims |-> claims])]

\* a cache test that still serves an entry of exactly maxCacheAge
CacheFreshInclusive(cachedAt) == now - cachedAt <= svc.maxCacheAge

\* getPublicKey's test of a cache entry
CacheFresh(cachedAt) == now - cachedAt < svc.maxCacheAge

\* a fetchJwks that joins a JWKS request another call has under way
FetchJwksJoining(call) ==
  IF \E d \in 1..MaxCalls : calls[d].pc = "fetchingJwks"
    THEN [call EXCEPT !.pc = "fetchingJwks"]
    ELSE [call EXCEPT !.pc = "fetchingJwks", !.nJwks = @ + 1]

\* fetchJwks with jwksUri set: the JWKS request goes out
FetchJwksSend(call) ==
  [call EXCEPT !.pc = "fetchingJwks", !.nJwks = @ + 1]

\* discoverJwksUri up to its await: a fresh configCache answers, otherwise
\* the discovery request goes out.  Yields the call and the new jwksUri.
DiscoverJwksUri(call) ==
  IF configCache # None /\ CacheFresh(Get(configCache).cachedAt)
    THEN [call |-> [call EXCEPT !.pc = "discovered"],
          jwksUri |-> Get(configCache).config.jwks_uri]
    ELSE [call |-> [call EXCEPT !.pc = "discovering", !.nDiscovery = @ + 1],
          jwksUri |-> jwksUri]

\* a getPublicKey that runs discovery on every miss
GetPublicKeyDiscoveringAlways(call, keyId) ==
  LET cached == keyCache[keyId]
      looked == [call EXCEPT !.keyId = Some(keyId), !.cacheReads = @ + 1,
                             !.steps = Append(@, "getPublicKey")]
  IN IF cached # None /\ CacheFresh(Get(cached).cachedAt)
       THEN [call |-> [looked EXCEPT
                         !.pc = "gotKey",
                         !.publicKey = Some(Get(cached).key),
                         !.hitAge = Some(now - Get(cached).cachedAt)],
             jwksUri |-> jwksUri]
     ELSE [call |-> [looked EXCEPT !.pc = "discovering", !.nDiscovery = @ + 1],
           jwksUri |-> jwksUri]

\* getPublicKey up to its first await
GetPublicKey(call, keyId) ==
  LET cached == keyCache[keyId]
      looked == [call EXCEPT !.keyId = Some(keyId), !.cacheReads = @ + 1,
                             !.steps = Append(@, "getPublicKey")]
  IN IF cached # None /\ CacheFresh(Get(cached).cachedAt)
       THEN [call |-> [looked EXCEPT
                         !.pc = "gotKey",
                         !.publicKey = Some(Get(cached).key),
                         !.hitAge = Some(now - Get(cached).cachedAt)],
             jwksUri |-> jwksUri]
     ELSE IF jwksUri = None THEN DiscoverJwksUri(looked)
     ELSE [call |-> FetchJwksSend(looked), jwksUri |-> jwksUri]

\* validateToken up to its first await: decode, kid, getPublicKey
ValidateTokenStart(call) ==
  LET tok == call.token
      decoded == tok # None /\ Get(tok).wellFormed
  IN IF ~decoded
       THEN [call |-> Rejected([call EXCEPT !.steps = <<"decode">>],
                               <<"Invalid JWT token format">>),
             jwksUri |-> jwksUri]
     ELSE IF Get(tok).kid = None
       THEN [call |-> Rejected([call EXCEPT !.steps = <<"decode", "kid">>],
                               <<"JWT token missing key ID (kid) in header">>),
             jwksUri |-> jwksUri]
     ELSE GetPublicKey([call EXCEPT !.steps = <<"decode", "kid">>],
                       Get(Get(tok).kid))

\* a caller invokes jwtService.validateToken(token, {signatureOnly,
\* publicKey}); the code never reads options.publicKey
ValidateTokenCall(c, tok, sigOnly, keyOpt) ==
  /\ calls[c].pc = "idle"
  /\ \A d \in 1..(c - 1) : calls[d].pc # "idle"
  /\ LET r == ValidateTokenStart([IdleCall EXCEPT
                 !.via = "direct",
                 !.token = tok,
                 !.signatureOnly = sigOnly,
                 !.keyOption = keyOpt,
                 !.afterClear = (returned.op = "clearCache"
                                   /\ ~returned.resolving)])
     IN /\ calls' = [calls EXCEPT ![c] = r.call]
        /\ jwksUri' = r.jwksUri
  /\ returned' = NotCalled
  /\ UNCHANGED <<jwtValidator, options, svc, keyCache, configCache, now, config>>

\* a discovery that is sent once more when the first request fails
DiscoveryResponseRetrying(c, outcome) ==
  /\ calls[c].pc = "discovering"
  /\ IF outcome.ok /\ outcome.jwks_uri # None
       THEN /\ jwksUri' = outcome.jwks_uri
            /\ configCache' = Some([config |-> [jwks_uri |-> outcome.jwks_uri],
                                    cachedAt |-> now])
            /\ calls' = [calls EXCEPT ![c].pc = "discovered"]
       ELSE /\ calls' = [calls EXCEPT ![c] =
                 IF @.nDiscovery < 2
                   THEN [@ EXCEPT !.nDiscovery = @ + 1]
                   ELSE Rejected(@, <<"Failed to discover JWKS URI">>)]
            /\ UNCHANGED <<jwksUri, configCache>>
  /\ UNCHANGED <<jwtValidator, returned, options, svc, keyCache, now, config>>

\* the discovery request settles; discoverJwksUri resumes
DiscoveryResponse(c, outcome) ==
  /\ calls[c].pc = "discovering"
  /\ IF outcome.ok /\ outcome.jwks_uri # None
       THEN /\ jwksUri' = outcome.jwks_uri
            /\ configCache' = Some([config |-> [jwks_uri |-> outcome.jwks_uri],
                                    cachedAt |-> now])
            /\ calls' = [calls EXCEPT ![c].pc = "discovered"]
       ELSE /\ calls' = [calls EXCEPT ![c] =
                 Rejected(@, IF outcome.ok
                               THEN <<"Failed to discover JWKS URI: JWKS URI not found in OpenID configuration">>
                               ELSE <<"Failed to discover JWKS URI">>)]
            /\ UNCHANGED <<jwksUri, configCache>>
  /\ UNCHANGED <<jwtValidator, returned, options, svc, keyCache, now, config>>

\* getPublicKey resumes after discoverJwksUri and calls fetchJwks
FetchJwks(c) ==
  /\ calls[c].pc = "discovered"
  /\ calls' = [calls EXCEPT ![c] =
       IF jwksUri = None THEN Rejected(@, <<"JWKS URI not available">>)
       ELSE FetchJwksSend(@)]
  /\ UNCHANGED <<jwtValidator, returned, options, svc, jwksUri, keyCache, configCache, now, config>>

\* a JWKS answer handler that empties the key cache when it fails
JwksResponseClearingOnFailure(c, outcome) ==
  /\ calls[c].pc = "fetchingJwks"
  /\ LET keyId == Get(calls[c].keyId)
         jwkKey == FindKey(outcome.keys, keyId)
     IN IF ~outcome.ok
          THEN /\ calls' = [calls EXCEPT ![c] = Rejected(@, <<"Failed to fetch JWKS">>)]
               /\ keyCache' = [k \in Kids |-> None]
        ELSE IF jwkKey = None
          THEN /\ calls' = [calls EXCEPT ![c] = Rejected(@, <<"Public key not found for key ID">>)]
               /\ keyCache' = [k \in Kids |-> None]
        ELSE IF ~JwkConvertible(Get(jwkKey))
          THEN /\ calls' = [calls EXCEPT ![c] = Rejected(@, <<"Unsupported or invalid key">>)]
               /\ keyCache' = [k \in Kids |-> None]
        ELSE /\ keyCache' = [keyCache EXCEPT ![keyId] =
                  Some([key |-> jwkToPem(Get(jwkKey)), cachedAt |-> now])]
             /\ calls' = [calls EXCEPT ![c].pc = "gotKey",
                                       ![c].publicKey = Some(jwkToPem(Get(jwkKey))),
                                       ![c].cacheWrites = @ + 1]
  /\ UNCHANGED <<jwtValidator, returned, options, svc, jwksUri, configCache, now, config>>

\* the JWKS request settles; getPublicKey finds the key, converts it and
\* caches it
JwksResponse(c, outcome) ==
  /\ calls[c].pc = "fetchingJwks"
  /\ LET keyId == Get(calls[c].keyId)
         jwkKey == FindKey(outcome.keys, keyId)
     IN IF ~outcome.ok
          THEN /\ calls' = [calls EXCEPT ![c] = Rejected(@, <<"Failed to fetch JWKS">>)]
               /\ UNCHANGED keyCache
        ELSE IF jwkKey = None
          THEN /\ calls' = [calls EXCEPT ![c] = Rejected(@, <<"Public key not found for key ID">>)]
               /\ UNCHANGED keyCache
        ELSE IF ~JwkConvertible(Get(jwkKey))
          THEN /\ calls' = [calls EXCEPT ![c] = Rejected(@, <<"Unsupported or invalid key">>)]
               /\ UNCHANGED keyCache
        ELSE /\ keyCache' = [keyCache EXCEPT ![keyId] =
                  Some([key |-> jwkToPem(Get(jwkKey)), cachedAt |-> now])]
             /\ calls' = [calls EXCEPT ![c].pc = "gotKey",
                                       ![c].publicKey = Some(jwkToPem(Get(jwkKey))),
                                       ![c].cacheWrites = @ + 1]
  /\ UNCHANGED <<jwtValidator, returned, options, svc, jwksUri, configCache, now, config>>

\* validateToken evaluating the filter whatever jwt.verify said
VerifyAndFilterAlways(call) ==
  LET t == Get(call.token)
      err == JwtVerify(t, Get(call.publicKey), svc, call.signatureOnly, now)
      filtered == [call EXCEPT !.steps = @ \o <<"verify", "validate">>,
                               !.verifiedAt = Some(now)]
      msg == IF svc.validator = None THEN <<>>
             ELSE Validate(Get(svc.validator), Some(Payload(t)))
  IN IF err # "" THEN Rejected(filtered, <<err>>)
     ELSE IF msg # <<>> THEN Rejected(filtered, msg)
     ELSE Resolved(filtered, Payload(t))

\* validateToken resumes with the public key: jwt.verify, then the
\* validator's filter when the service has a validator
VerifyAndFilter(call) ==
  LET t == Get(call.token)
      err == JwtVerify(t, Get(call.publicKey), svc, call.signatureOnly, now)
      verified == [call EXCEPT !.steps = Append(@, "verify"),
                               !.verifiedAt = Some(now)]
  IN IF err # "" THEN Rejected(verified, <<err>>)
     ELSE IF svc.validator = None THEN Resolved(verified, Payload(t))
     ELSE LET filtered == [verified EXCEPT !.steps = Append(@, "validate")]
              msg == Validate(Get(svc.validator), Some(Payload(t)))
          IN IF msg # <<>> THEN Rejected(filtered, msg)
             ELSE Resolved(filtered, Payload(t))

Verify(c) ==
  /\ calls[c].pc = "gotKey"
  /\ calls' = [calls EXCEPT ![c] = VerifyAndFilter(@)]
  /\ UNCHANGED <<jwtValidator, returned, options, svc, jwksUri, keyCache, configCache, now, config>>

\* a clearCache that empties the key cache only
ClearKeyCacheOnly ==
  /\ keyCache' = [k \in Kids |-> None]
  /\ returned' = [op |-> "clearCache",
                  resolving |-> \E c \in 1..MaxCalls : Resolving(calls[c]),
                  jwksRequested |->
                    \A c \in 1..MaxCalls :
                      Resolving(calls[c]) => calls[c].pc = "fetchingJwks"]
  /\ UNCHANGED <<jwtValidator, options, svc, now, config, calls,
                 configCache, jwksUri>>

\* JwtService.clearCache; `returned` keeps whether a key resolution was
\* under way when it returned, and whether every resolution under way had
\* its JWKS request out
ClearCache ==
  /\ keyCache' = [k \in Kids |-> None]
  /\ configCache' = None
  /\ jwksUri' = None
  /\ returned' = [op |-> "clearCache",
                  resolving |-> \E c \in 1..MaxCalls : Resolving(calls[c]),
                  jwksRequested |->
                    \A c \in 1..MaxCalls :
                      Resolving(calls[c]) => calls[c].pc = "fetchingJwks"]
  /\ UNCHANGED <<jwtValidator, options, svc, now, config, calls>>

\* time passes
Tick ==
  /\ now < MaxClock
  /\ now' = now + 1
  /\ UNCHANGED <<jwtValidator, returned, options, svc, jwksUri, keyCache, configCache, config, calls>>

----------------------------------------------------------------------------
(* The key-cache specification: a JwtService built directly from options,  *)
(* concurrent validateToken calls, a clock and clearCache.                 *)

NoConfig == [kind |-> "none"]

ServiceOptions(tol, age, aud, validator) ==
  [issuer |-> Issuer, audience |-> aud, clockTolerance |-> tol,
   maxCacheAge |-> age, validator |-> validator]

InitService(opts, clock, cfg) ==
  /\ options = opts
  /\ svc = JwtServiceNew(opts)
  /\ jwksUri = None
  /\ keyCache = [k \in Kids |-> None]
  /\ configCache = None
  /\ now = clock
  /\ config = cfg
  /\ calls = [c \in 1..MaxCalls |-> IdleCall]
  /\ jwtValidator = None
  /\ returned = NotCalled

Init ==
  \E age \in {Some(0), Some(2)} :
    InitService(ServiceOptions(None, age, Some(Audience), None), 0, NoConfig)

\* a caller's validateToken(token) while other calls may be in flight
DirectCall ==
  \E c \in 1..MaxCalls :
    /\ calls[c].pc = "idle"
    /\ \E t \in CoreTokens : ValidateTokenCall(c, Some(t), FALSE, None)

Next ==
  \/ DirectCall
  \/ \E c \in 1..MaxCalls, o \in DiscoveryOutcomes : DiscoveryResponse(c, o)
  \/ \E c \in 1..MaxCalls : FetchJwks(c)
  \/ \E c \in 1..MaxCalls, o \in JwksOutcomes : JwksResponse(c, o)
  \/ \E c \in 1..MaxCalls : Verify(c)
  \/ ClearCache
  \/ Tick

Spec == Init /\ [][Next]_vars


----------------------------------------------------------------------------
(* The verification specification: one validateToken call at a time on a   *)
(* JwtService built directly from options, over every combination of the   *)
(* token's claims, at a fixed clock.                                       *)

RoleFilter == <<[field |-> "role", value |-> Admin.str]>>
RoleMapper == <<[field |-> "role", header |-> <<"X", "-", "r">>]>>

VerifyClock == VerifyEpoch * MsPerSecond + 500

\* every combination of claims, and the tokens that stop before key
\* resolution
VerifyTokens ==
  JwtTokens \cup {Opaque("garbage"), GoodToken(None, Some(Issuer))}

VerifyInit ==
  \E tol \in {None, Some(0), Some(1)},
     aud \in {None, Some(Audience)},
     validator \in {None, Some(JwtValidatorNew([filter |-> RoleFilter,
                                               mapper |-> RoleMapper]))} :
    InitService(ServiceOptions(tol, None, aud, validator), VerifyClock, NoConfig)

\* the PEM a caller may hand over as options.publicKey
LocalKey == jwkToPem(RsaJwk("k1", 2))

\* a caller's validateToken(token, {signatureOnly, publicKey}) on the idle
\* service
VerifyCall ==
  /\ calls[1].pc = "idle"
  /\ \E t \in VerifyTokens, so \in BOOLEAN, pk \in {None, Some(LocalKey)} :
       ValidateTokenCall(1, Some(t), so, pk)

VerifyNext ==
  \/ VerifyCall
  \/ \E c \in 1..MaxCalls, o \in DiscoveryOutcomes : DiscoveryResponse(c, o)
  \/ \E c \in 1..MaxCalls : FetchJwks(c)
  \/ \E c \in 1..MaxCalls, o \in JwksOutcomes : JwksResponse(c, o)
  \/ \E c \in 1..MaxCalls : Verify(c)

VerifySpec == VerifyInit /\ [][VerifyNext]_vars


----------------------------------------------------------------------------
(* The request pipeline (src/src/services/proxy.service.ts, lines 97-341). *)
(* Header names and URLs are sequences of characters.                      *)

\* String.prototype.toLowerCase over the model's alphabet
LowerChar(ch) ==
  CASE ch = "X" -> "x"
    [] ch = "R" -> "r"
    [] OTHER -> ch

ToLowerCase(str) == [i \in 1..Len(str) |-> LowerChar(str[i])]

\* the header-name test of removeAllIncomingAuthHeaders
IsAuthHeader(headerName, authHeaderPrefix) ==
  StartsWith(ToLowerCase(headerName), ToLowerCase(authHeaderPrefix))

\* header removal comparing the names as the client wrote them
RemoveAuthHeadersCaseSensitive(cfg, headers) ==
  [h \in {n \in DOMAIN headers : ~StartsWith(n, cfg.jwt.authHeaderPrefix)}
     |-> headers[h]]

\* removeAllIncomingAuthHeaders: the headers that stay
RemoveAllIncomingAuthHeaders(cfg, headers) ==
  [h \in {n \in DOMAIN headers : ~IsAuthHeader(n, cfg.jwt.authHeaderPrefix)}
     |-> headers[h]]

\* JwtService.mapClaims
MapClaims(service, claims) ==
  IF service.validator = None THEN [h \in {} |-> <<>>]
  ELSE Map(Get(service.validator), Some(claims))

\* requestProcessor's loop: every mapped header is set on the request
SetHeaders(headers, mapped) ==
  [h \in DOMAIN headers \cup DOMAIN mapped |->
     IF h \in DOMAIN mapped THEN mapped[h] ELSE headers[h]]

\* req.headers['authorization']?.split(' ')[1]
BearerToken(authorization) ==
  IF authorization # None /\ Len(Get(authorization)) >= 2
    THEN Some(Get(authorization)[2])
    ELSE None

\* the errors the pipeline throws
UnauthorizedError(message) ==
  [http |-> TRUE, isError |-> TRUE, name |-> "UnauthorizedError",
   status |-> 401, message |-> message]
BadRequestError(message) ==
  [http |-> TRUE, isError |-> TRUE, name |-> "BadRequestError",
   status |-> 400, message |-> message]
InternalServerError(message) ==
  [http |-> TRUE, isError |-> TRUE, name |-> "InternalServerError",
   status |-> 500, message |-> message]

\* an Error that is no HttpError, by its name, and a thrown value that is no
\* Error at all
PlainError(name, message) ==
  [http |-> FALSE, isError |-> TRUE, name |-> name, message |-> message]
NonError(value) ==
  [http |-> FALSE, isError |-> FALSE, value |-> value]

\* a rewrite that lets a URL outside the base URL through as it is
RewriteBaseUrlLenient(url, proxyBaseUrl) ==
  IF proxyBaseUrl = None \/ proxyBaseUrl = Some(<<>>) \/ url = <<>>
    THEN [ok |-> TRUE, url |-> url]
  ELSE LET base == Get(proxyBaseUrl)
           baseUrlPattern == IF base[Len(base)] = "/"
                               THEN SubSeq(base, 1, Len(base) - 1)
                               ELSE base
       IN IF StartsWith(url, baseUrlPattern)
            THEN LET rest == SubSeq(url, Len(baseUrlPattern) + 1, Len(url))
                 IN [ok |-> TRUE, url |-> IF rest = <<>> THEN <<"/">> ELSE rest]
            ELSE [ok |-> TRUE, url |-> url]

\* a rewrite that strips the base URL but leaves an empty remainder empty
RewriteBaseUrlKeepingEmpty(url, proxyBaseUrl) ==
  IF proxyBaseUrl = None \/ proxyBaseUrl = Some(<<>>) \/ url = <<>>
    THEN [ok |-> TRUE, url |-> url]
  ELSE LET base == Get(proxyBaseUrl)
           baseUrlPattern == IF base[Len(base)] = "/"
                               THEN SubSeq(base, 1, Len(base) - 1)
                               ELSE base
       IN IF StartsWith(url, baseUrlPattern)
            THEN [ok |-> TRUE,
                  url |-> SubSeq(url, Len(baseUrlPattern) + 1, Len(url))]
            ELSE [ok |-> FALSE,
                  error |-> BadRequestError(
                    <<"Request URL", url, "does not match proxy base URL", base>>)]

\* rewriteBaseUrlByStrippingBaseUrl: the rewritten URL, or the error thrown
RewriteBaseUrl(url, proxyBaseUrl) ==
  IF proxyBaseUrl = None \/ proxyBaseUrl = Some(<<>>) \/ url = <<>>
    THEN [ok |-> TRUE, url |-> url]
  ELSE LET base == Get(proxyBaseUrl)
           baseUrlPattern == IF base[Len(base)] = "/"
                               THEN SubSeq(base, 1, Len(base) - 1)
                               ELSE base
       IN IF StartsWith(url, baseUrlPattern)
            THEN LET rest == SubSeq(url, Len(baseUrlPattern) + 1, Len(url))
                 IN [ok |-> TRUE, url |-> IF rest = <<>> THEN <<"/">> ELSE rest]
            ELSE [ok |-> FALSE,
                  error |-> BadRequestError(
                    <<"Request URL", url, "does not match proxy base URL", base>>)]

\* an errorHandler that answers every error as an internal one
ErrorHandlerInternal(error) ==
  [kind |-> "response", status |-> 500, error |-> "InternalServerError",
   message |-> error.message]

\* an errorHandler that names every error that is no HttpError
\* InternalServerError
ErrorHandlerNamingInternal(error) ==
  IF error.http
    THEN [kind |-> "response", status |-> error.status, error |-> error.name,
          message |-> error.message]
  ELSE IF error.isError
    THEN [kind |-> "response", status |-> InternalServerError(<<>>).status,
          error |-> "InternalServerError", message |-> error.message]
  ELSE [kind |-> "response", status |-> InternalServerError(<<>>).status,
        error |-> "InternalServerError",
        message |-> <<"Unknown error: ", error.value>>]

\* errorHandler: the response written for a thrown value; error and
\* message are the two fields of its JSON body
ErrorHandler(error) ==
  IF error.http
    THEN [kind |-> "response", status |-> error.status, error |-> error.name,
          message |-> error.message]
  ELSE IF error.isError
    THEN [kind |-> "response", status |-> InternalServerError(<<>>).status,
          error |-> error.name, message |-> error.message]
  ELSE [kind |-> "response", status |-> InternalServerError(<<>>).status,
        error |-> "UnknownError",
        message |-> <<"Unknown error: ", error.value>>]

\* `new JwtService(config.jwt)` in createProxyServer: the JwtConfig is read
\* as JwtServiceOptions, and it has no `validator` property
ProxyServiceOptions(cfg) ==
  [issuer |-> cfg.jwt.issuer, audience |-> cfg.jwt.audience,
   clockTolerance |-> cfg.jwt.clockTolerance,
   maxCacheAge |-> cfg.jwt.maxCacheAge, validator |-> None]

\* ConfigData.getProxyBaseUrl
GetProxyBaseUrl(cfg) ==
  IF cfg.env.PROXY_BASE_URL # None THEN cfg.env.PROXY_BASE_URL
  ELSE cfg.proxy.proxyBaseUrl

\* a request handler whose 401 tells that a secret is configured
RequestOutcomeTellingSecret(cfg, call) ==
  LET res == Get(call.result)
      req == Get(call.req)
  IN IF ~res.ok
       THEN ErrorHandler(UnauthorizedError(
              IF cfg.proxy.secretToken \notin {None, Some("")}
                THEN <<"Secret mismatch; Failed to decode JWT:", res.error>>
                ELSE <<"Failed to decode JWT:", res.error>>))
     ELSE LET kept == RemoveAllIncomingAuthHeaders(cfg, req.headers)
              headers == SetHeaders(kept, MapClaims(svc, res.claims))
              rewritten == RewriteBaseUrl(req.url, GetProxyBaseUrl(cfg))
          IN IF rewritten.ok
               THEN [kind |-> "forwarded", headers |-> headers,
                     url |-> rewritten.url]
               ELSE ErrorHandler(rewritten.error)

\* the steps requestProcessor takes once the token is accepted, in the order
\* of its statements
PipelineSteps ==
  <<"removeAllIncomingAuthHeaders", "mapClaims", "setHeaders",
    "rewriteBaseUrlByStrippingBaseUrl">>

\* the response errorHandler writes, with the steps taken before it
Answer(error, did) ==
  LET res == ErrorHandler(error)
  IN [kind |-> res.kind, status |-> res.status, error |-> res.error,
      message |-> res.message, did |-> Append(did, "errorHandler")]

\* a request handler that looks at the URL before it awaits validateToken's
\* result
RequestOutcomeRewritingFirst(cfg, call) ==
  LET res == Get(call.result)
      req == Get(call.req)
      rewritten == RewriteBaseUrl(req.url, GetProxyBaseUrl(cfg))
  IN IF ~rewritten.ok
       THEN Answer(rewritten.error, <<"rewriteBaseUrlByStrippingBaseUrl">>)
     ELSE IF ~res.ok
       THEN Answer(UnauthorizedError(<<"Failed to decode JWT:", res.error>>),
                   <<"rewriteBaseUrlByStrippingBaseUrl">>)
     ELSE LET kept == RemoveAllIncomingAuthHeaders(cfg, req.headers)
              headers == SetHeaders(kept, MapClaims(svc, res.claims))
          IN [kind |-> "forwarded", headers |-> headers,
              url |-> rewritten.url,
              did |-> <<"rewriteBaseUrlByStrippingBaseUrl",
                        "removeAllIncomingAuthHeaders", "mapClaims",
                        "setHeaders", "proxy.web">>]

\* a request handler that calls proxy.web after the catch, whether
\* requestProcessor threw or not
RequestOutcomeForwardingAlways(cfg, call) ==
  LET res == Get(call.result)
      req == Get(call.req)
  IN IF ~res.ok
       THEN Answer(UnauthorizedError(<<"Failed to decode JWT:", res.error>>),
                   <<"proxy.web">>)
     ELSE LET kept == RemoveAllIncomingAuthHeaders(cfg, req.headers)
              headers == SetHeaders(kept, MapClaims(svc, res.claims))
              rewritten == RewriteBaseUrl(req.url, GetProxyBaseUrl(cfg))
          IN IF rewritten.ok
               THEN [kind |-> "forwarded", headers |-> headers,
                     url |-> rewritten.url,
                     did |-> Append(PipelineSteps, "proxy.web")]
               ELSE Answer(rewritten.error, Append(PipelineSteps, "proxy.web"))

\* requestProcessor after validateToken has settled, under configuration
\* cfg, and the server's answer: the request as it is forwarded, or the
\* response errorHandler writes; did lists the steps taken, in order
RequestOutcome(cfg, call) ==
  LET res == Get(call.result)
      req == Get(call.req)
  IN IF ~res.ok
       THEN Answer(UnauthorizedError(<<"Failed to decode JWT:", res.error>>),
                   <<>>)
     ELSE LET kept == RemoveAllIncomingAuthHeaders(cfg, req.headers)
              headers == SetHeaders(kept, MapClaims(svc, res.claims))
              rewritten == RewriteBaseUrl(req.url, GetProxyBaseUrl(cfg))
          IN IF rewritten.ok
               THEN [kind |-> "forwarded", headers |-> headers,
                     url |-> rewritten.url,
                     did |-> Append(PipelineSteps, "proxy.web")]
               ELSE Answer(rewritten.error, PipelineSteps)

\* a requestProcessor that swallows the validation error and carries on
\* with no claims
ProcessRequestUnchecked(call) ==
  LET res == Get(call.result)
      req == Get(call.req)
      kept == RemoveAllIncomingAuthHeaders(config, req.headers)
      headers == SetHeaders(kept, MapClaims(svc, res.claims))
      rewritten == RewriteBaseUrl(req.url, GetProxyBaseUrl(config))
  IN IF rewritten.ok
       THEN [kind |-> "forwarded", headers |-> headers, url |-> rewritten.url]
       ELSE ErrorHandler(rewritten.error)

\* requestProcessor after validateToken settled: the request is handed to
\* proxy.web, or the thrown error goes to errorHandler
ProcessRequest(call) == RequestOutcome(config, call)

\* the server's request handler up to its first await: requestProcessor
\* takes the token from the header and calls jwtService.validateToken
HandleRequest(c, req) ==
  /\ calls[c].pc = "idle"
  /\ \A d \in 1..(c - 1) : calls[d].pc # "idle"
  /\ LET r == ValidateTokenStart([IdleCall EXCEPT
                                    !.via = "requestProcessor",
                                    !.token = BearerToken(req.authorization),
                                    !.req = Some(req)])
     IN /\ calls' = [calls EXCEPT ![c] = r.call]
        /\ jwksUri' = r.jwksUri
  /\ UNCHANGED <<jwtValidator, returned, options, svc, keyCache, configCache, now, config>>

\* a handler without the catch: it resumes only when validateToken resolved
RequestProcessorResumeOnSuccess(c) ==
  /\ calls[c].pc = "done"
  /\ calls[c].via = "requestProcessor"
  /\ Get(calls[c].result).ok
  /\ calls' = [calls EXCEPT ![c].pc = "closed",
                            ![c].out = Some(ProcessRequest(calls[c]))]
  /\ UNCHANGED <<jwtValidator, returned, options, svc, jwksUri, keyCache, configCache, now, config>>

\* the handler resumes when validateToken has settled
RequestProcessorResume(c) ==
  /\ calls[c].pc = "done"
  /\ calls[c].via = "requestProcessor"
  /\ calls' = [calls EXCEPT ![c].pc = "closed",
                            ![c].out = Some(ProcessRequest(calls[c]))]
  /\ UNCHANGED <<jwtValidator, returned, options, svc, jwksUri, keyCache, configCache, now, config>>

\* the request is over; the server takes the next one
NextRequest(c) ==
  /\ calls[c].pc = "closed"
  /\ calls' = [calls EXCEPT ![c] = IdleCall]
  /\ UNCHANGED <<jwtValidator, returned, options, svc, jwksUri, keyCache, configCache, now, config>>

----------------------------------------------------------------------------
(* The proxy specification: the server of createProxyServer(config),       *)
(* taking one request after another.                                       *)

Secret == "S3cr3t"

AuthHeaderPrefix == <<"X", "-">>

BaseUrls == {None, Some(<<"/">>), Some(<<"/", "a">>), Some(<<"/", "a", "/">>)}

ProxyConfig(secretToken, proxyBaseUrl, filter) ==
  [jwt |-> [issuer |-> Issuer, audience |-> Some(Audience),
            clockTolerance |-> Some(DefaultClockTolerance),
            maxCacheAge |-> Some(DefaultMaxCacheAge),
            authHeaderPrefix |-> AuthHeaderPrefix,
            filter |-> filter, mapper |-> RoleMapper],
   proxy |-> [secretToken |-> secretToken, proxyBaseUrl |-> proxyBaseUrl],
   env |-> [PROXY_BASE_URL |-> None]]

\* the bearer credentials a client may present
ProxyTokens ==
  { Opaque(""), Opaque(Secret), Opaque("garbage"),
    GoodToken(Some("k1"), Some(Issuer)),
    [GoodToken(Some("k1"), Some(Issuer)) EXCEPT !.role = Some(User)],
    [GoodToken(Some("k1"), Some(Issuer)) EXCEPT !.exp = Some(VerifyEpoch - 30)] }

Authorizations ==
  {None, Some(<<Opaque("Bearer")>>)}
    \cup { Some(<<Opaque("Bearer"), t>>) : t \in ProxyTokens }
    \cup { Some(<<Opaque("Basic"), t>>) :
             t \in {Opaque(Secret), GoodToken(Some("k1"), Some(Issuer))} }

\* the headers a client may send besides authorization
ClientHeaders ==
  { [h \in names |-> "client"] :
      names \in { {}, {<<"x", "-", "r">>}, {<<"X", "-", "R">>, <<"o">>},
                  {<<"x">>, <<"x", "-">>} } }

Urls == { <<"/", "a", "/", "b">>, <<"/", "a">>, <<"/", "a", "b">>,
          <<"/", "o">>, <<"/", "a", "?", "q">> }

Requests ==
  { [authorization |-> a, headers |-> h, url |-> u] :
      a \in Authorizations, h \in ClientHeaders, u \in Urls }

ProxyInit ==
  \E secretToken \in {None, Some(""), Some(Secret)},
     proxyBaseUrl \in BaseUrls,
     filter \in {<<>>, RoleFilter} :
    LET cfg == ProxyConfig(secretToken, proxyBaseUrl, filter)
    IN InitService(ProxyServiceOptions(cfg), VerifyClock, cfg)

\* a request arrives at the idle server
Request ==
  /\ calls[1].pc = "idle"
  /\ \E req \in Requests : HandleRequest(1, req)

ProxyNext ==
  \/ Request
  \/ \E c \in 1..MaxCalls, o \in DiscoveryOutcomes : DiscoveryResponse(c, o)
  \/ \E c \in 1..MaxCalls : FetchJwks(c)
  \/ \E c \in 1..MaxCalls, o \in JwksOutcomes : JwksResponse(c, o)
  \/ \E c \in 1..MaxCalls : Verify(c)
  \/ \E c \in 1..MaxCalls : RequestProcessorResume(c)
  \/ \E c \in 1..MaxCalls : NextRequest(c)

ProxySpec == ProxyInit /\ [][ProxyNext]_vars

\* The server under the scheduling the code relies on: every request
\* fetchJson sends settles (response, 'error' event or the 10 s 'timeout'
\* event), and the event loop runs every continuation that is ready.
ProxyFairness ==
  \A c \in 1..MaxCalls :
    /\ WF_vars(\E o \in DiscoveryOutcomes : DiscoveryResponse(c, o))
    /\ WF_vars(FetchJwks(c))
    /\ WF_vars(\E o \in JwksOutcomes : JwksResponse(c, o))
    /\ WF_vars(Verify(c))
    /\ WF_vars(RequestProcessorResume(c))

ProxyLiveSpec == ProxyInit /\ [][ProxyNext]_vars /\ ProxyFairness


----------------------------------------------------------------------------
(* The helper specification: secretValidation and a JwtValidator built     *)
(* from the configuration, each called directly as a unit.                 *)

\* the subject of the claims made up for the secret
DefaultSubForSecretAuth == "crun-jwt-auth-secret"

\* a secretValidation that only compares the token with the secret
SecretValidationCompareOnly(token, cfg, clock) ==
  IF token = cfg.proxy.secretToken
    THEN Some([iss |-> cfg.jwt.issuer, aud |-> cfg.jwt.audience,
               sub |-> DefaultSubForSecretAuth,
               email |-> <<DefaultSubForSecretAuth, "@farport.co">>,
               iat |-> clock \div MsPerSecond,
               exp |-> (clock \div MsPerSecond) + SecretLifetime])
    ELSE None

\* secretValidation(token, config) at Date.now() = clock: the claims made
\* up for the secret, or None for undefined.  A token or secret that is
\* undefined or '' is falsy.
SecretValidation(token, cfg, clock) ==
  LET secretToken == cfg.proxy.secretToken
      truthy(str) == str # None /\ Get(str) # ""
  IN IF truthy(token) /\ truthy(secretToken) /\ Get(token) = Get(secretToken)
       THEN LET seconds == clock \div MsPerSecond
            IN Some([iss |-> cfg.jwt.issuer, aud |-> cfg.jwt.audience,
                     sub |-> DefaultSubForSecretAuth,
                     email |-> <<DefaultSubForSecretAuth, "@farport.co">>,
                     iat |-> seconds,
                     exp |-> seconds + SecretLifetime])
       ELSE None

Guest == Str(<<"g", "u", "e", "s", "t">>)
Admins == Str(<<"a", "d", "m", "i", "n", "s">>)

Rule(field, value) == [field |-> field, value |-> value]

\* JwtConfig.filter: field -> value, in configuration order
Filters ==
  { <<>>,
    <<Rule("role", Admin.str)>>,
    <<Rule("role", <<"/", "^", "a", "d", "m", "i", "n", "$", "/">>)>>,
    <<Rule("role", <<"/", "a", ".", "*", "n", "/">>)>>,
    <<Rule("role", <<"/", "/">>)>>,
    <<Rule("role", <<"/", "a", "d", "m", "i", "n">>)>>,
    <<Rule("level", <<"5">>)>>,
    <<Rule("level", <<"5", ".", "0">>)>>,
    <<Rule("role", Admin.str), Rule("level", <<"5">>)>>,
    <<Rule("level", <<"/", "^", "5", "/">>), Rule("role", User.str)>> }

\* JwtConfig.mapper: source field -> header, in configuration order
Mappers ==
  { <<>>,
    RoleMapper,
    <<[field |-> "role", header |-> <<"X", "-", "r">>],
      [field |-> "level", header |-> <<"X", "-", "l">>],
      [field |-> "data", header |-> <<"X", "-", "d">>]>>,
    <<[field |-> "role", header |-> <<"X", "-", "r">>],
      [field |-> "level", header |-> <<"X", "-", "r">>]>> }

\* the claims handed to validate and map
ClaimSets ==
  { NoClaims,
    [role |-> Admin], [role |-> User], [role |-> Admins],
    [role |-> Str(<<>>)], [role |-> Null],
    [role |-> Arr(<<StrItem(User.str), StrItem(Admin.str)>>)],
    [role |-> Arr(<<StrItem(User.str), StrItem(Guest.str)>>)],
    [role |-> Arr(<<>>)],
    [level |-> Num(5)], [level |-> Num(50)], [level |-> Num(0)],
    [level |-> Str(<<"5">>)],
    [level |-> Arr(<<NumItem(6), NumItem(5)>>)],
    [role |-> Admin, level |-> Num(5)], [role |-> Admin, level |-> Num(6)],
    [role |-> User, level |-> Num(5)], [role |-> User, level |-> Num(6)],
    [role |-> Admin, data |-> Obj(<<Entry(<<"k">>, <<"v">>)>>)] }

Inputs == {None} \cup {Some(claims) : claims \in ClaimSets}

\* the token argument of secretValidation
PresentedTokens == {None, Some(""), Some(Secret), Some("other")}

\* the constraint isMapperKeysValid: validate(value, args) and the header
\* its defaultMessage() reports
IsMapperKeysValid(jwtConfig) ==
  IF jwtConfig.authHeaderPrefix = <<>>
  THEN [valid |-> TRUE, invalidHeader |-> None]
  ELSE LET checkHeaderPrefix == ToLowerCase(jwtConfig.authHeaderPrefix)
           value == jwtConfig.mapper
           bad == { i \in 1..Len(value) :
                      ~StartsWith(ToLowerCase(value[i].header),
                                  checkHeaderPrefix) }
       IN  IF bad = {}
           THEN [valid |-> TRUE, invalidHeader |-> None]
           ELSE [valid |-> FALSE,
                 invalidHeader |->
                   Some(value[CHOOSE i \in bad : \A j \in bad : i <= j].header)]

\* class-validator's validate(config) over the decorators of JwtConfig: the
\* properties that fail.  audience is @IsNotEmpty; filter and mapper are
\* @IsObject and nothing else
JwtConfigValidate(jwtConfig) ==
  { p \in {"audience"} : jwtConfig.audience = None }

\* the mappers and prefixes a configuration file may hold
ConfiguredMappers ==
  Mappers \cup
  { <<[field |-> "role", header |-> <<"x", "-", "r">>]>>,
    <<[field |-> "role", header |-> <<"r">>]>>,
    <<[field |-> "role", header |-> <<"X", "-", "r">>],
      [field |-> "level", header |-> <<"Y", "-", "l">>],
      [field |-> "data", header |-> <<"Z", "-", "d">>]>> }

JwtConfigs ==
  { [ProxyConfig(None, None, <<>>).jwt EXCEPT
       !.mapper = mapper, !.authHeaderPrefix = prefix, !.audience = audience] :
      mapper \in ConfiguredMappers,
      prefix \in {AuthHeaderPrefix, <<"x", "-">>},
      audience \in {Some(Audience), None} }

HelperConfigs ==
  { [ProxyConfig(secretToken, None, filter) EXCEPT !.jwt.mapper = mapper] :
      secretToken \in {None, Some(""), Some(Secret)},
      filter \in Filters,
      mapper \in Mappers }

HelperInit ==
  \E cfg \in HelperConfigs, clock \in {0, VerifyClock} :
    /\ options = ProxyServiceOptions(cfg)
    /\ svc = JwtServiceNew(options)
    /\ jwksUri = None
    /\ keyCache = [k \in Kids |-> None]
    /\ configCache = None
    /\ now = clock
    /\ config = cfg
    /\ calls = [c \in 1..MaxCalls |-> IdleCall]
    /\ jwtValidator = Some(JwtValidatorNew(cfg.jwt))
    /\ returned = NotCalled

\* secretValidation(token, config)
SecretValidationCall ==
  /\ \E token \in PresentedTokens :
       returned' = [op |-> "secretValidation", token |-> token,
                    result |-> SecretValidation(token, config, now)]
  /\ UNCHANGED <<jwtValidator, options, svc, jwksUri, keyCache, configCache,
                 now, config, calls>>

\* validator.validate(input)
ValidateCall ==
  /\ jwtValidator # None
  /\ \E input \in Inputs :
       returned' = [op |-> "validate", input |-> input,
                    message |-> Validate(Get(jwtValidator), input)]
  /\ UNCHANGED <<jwtValidator, options, svc, jwksUri, keyCache, configCache,
                 now, config, calls>>

\* validator.map(input)
MapCall ==
  /\ jwtValidator # None
  /\ \E input \in Inputs :
       returned' = [op |-> "map", input |-> input,
                    result |-> Map(Get(jwtValidator), input)]
  /\ UNCHANGED <<jwtValidator, options, svc, jwksUri, keyCache, configCache,
                 now, config, calls>>

\* the values the request handler may catch
ThrownValues ==
  { UnauthorizedError(<<"Failed to decode JWT:",
                        <<"JWT validation failed: ", "Invalid JWT token format">>>>),
    BadRequestError(<<"Request URL", <<"/", "o">>,
                      "does not match proxy base URL", <<"/", "a">>>>),
    InternalServerError(<<"broken">>),
    PlainError("Error", <<"socket hang up">>),
    PlainError("TypeError", <<"x is not a function">>),
    NonError("boom") }

\* errorHandler(error, res)
ErrorHandlerCall ==
  /\ \E error \in ThrownValues :
       returned' = [op |-> "errorHandler", input |-> error,
                    result |-> ErrorHandler(error)]
  /\ UNCHANGED <<jwtValidator, options, svc, jwksUri, keyCache, configCache,
                 now, config, calls>>

\* validate(config) of a JwtConfig read from the configuration
JwtConfigValidateCall ==
  /\ \E jwtConfig \in JwtConfigs :
       returned' = [op |-> "validateConfig", input |-> jwtConfig,
                    errors |-> JwtConfigValidate(jwtConfig)]
  /\ UNCHANGED <<jwtValidator, options, svc, jwksUri, keyCache, configCache,
                 now, config, calls>>

\* the constraint isMapperKeysValid applied to the mapper of a JwtConfig
IsMapperKeysValidCall ==
  /\ \E jwtConfig \in JwtConfigs :
       returned' = [op |-> "isMapperKeysValid", input |-> jwtConfig,
                    result |-> IsMapperKeysValid(jwtConfig)]
  /\ UNCHANGED <<jwtValidator, options, svc, jwksUri, keyCache, configCache,
                 now, config, calls>>

HelperNext ==
  \/ SecretValidationCall
  \/ ValidateCall
  \/ MapCall
  \/ JwtConfigValidateCall
  \/ IsMapperKeysValidCall
  \/ ErrorHandlerCall

HelperSpec == HelperInit /\ [][HelperNext]_vars

----------------------------------------------------------------------------
(* The authentication specification: validateAuthentication(req, config,   *)
(* jwtService) called directly, one request after another, with the        *)
(* service createProxyServer builds from the configuration or with one     *)
(* that was handed a JwtValidator for the configuration's filter.          *)

\* what validateAuthentication gave its caller
ReturnedClaims(path, claims) ==
  [kind |-> "returned", path |-> path, claims |-> claims]
Thrown(error) == [kind |-> "thrown", error |-> error]

\* the token as the string secretValidation compares
TokenText(token) == IF token = None THEN None ELSE Some(Get(token).text)

\* a validateAuthentication that hands out the token's payload although
\* validateToken rejected
ValidateAuthenticationSwallowing(call) ==
  LET res == Get(call.result)
  IN IF res.ok THEN ReturnedClaims("jwt", res.claims)
     ELSE IF Get(call.token).wellFormed
       THEN ReturnedClaims("jwt", Payload(Get(call.token)))
     ELSE Thrown(UnauthorizedError(<<"Failed to validate JWT:", res.error>>))

\* validateAuthentication after validateToken has settled: the claims, or
\* the UnauthorizedError wrapped around the cause
ValidateAuthenticationSettled(call) ==
  LET res == Get(call.result)
  IN IF res.ok THEN ReturnedClaims("jwt", res.claims)
     ELSE Thrown(UnauthorizedError(<<"Failed to validate JWT:", res.error>>))

\* validateAuthentication up to its await: the token from the header, the
\* secret check, then jwtService.validateToken
ValidateAuthenticationCall(c, req) ==
  /\ calls[c].pc = "idle"
  /\ \A d \in 1..(c - 1) : calls[d].pc # "idle"
  /\ LET token == BearerToken(req.authorization)
         call == [IdleCall EXCEPT !.via = "validateAuthentication",
                                  !.token = token, !.req = Some(req)]
         claims == SecretValidation(TokenText(token), config, now)
     IN IF token = None \/ Get(token).text = ""
          THEN /\ calls' = [calls EXCEPT ![c] =
                    [call EXCEPT
                       !.pc = "closed",
                       !.out = Some(Thrown(UnauthorizedError(
                                 <<"Missing authorization token">>)))]]
               /\ jwksUri' = jwksUri
        ELSE IF claims # None
          THEN /\ calls' = [calls EXCEPT ![c] =
                    [call EXCEPT
                       !.pc = "closed",
                       !.out = Some(ReturnedClaims("secret", Get(claims)))]]
               /\ jwksUri' = jwksUri
        ELSE LET r == ValidateTokenStart(call)
             IN /\ calls' = [calls EXCEPT ![c] = r.call]
                /\ jwksUri' = r.jwksUri
  /\ UNCHANGED <<jwtValidator, returned, options, svc, keyCache, configCache, now, config>>

\* validateAuthentication resumes when validateToken has settled
ValidateAuthenticationResume(c) ==
  /\ calls[c].pc = "done"
  /\ calls[c].via = "validateAuthentication"
  /\ calls' = [calls EXCEPT
                 ![c].pc = "closed",
                 ![c].out = Some(ValidateAuthenticationSettled(calls[c]))]
  /\ UNCHANGED <<jwtValidator, returned, options, svc, jwksUri, keyCache, configCache, now, config>>

\* the requests handed to validateAuthentication
AuthRequests ==
  { [authorization |-> a, headers |-> [h \in {} |-> "client"],
     url |-> <<"/", "a">>] : a \in Authorizations }

AuthInit ==
  \E secretToken \in {None, Some(""), Some(Secret)},
     filter \in {<<>>, RoleFilter},
     handedValidator \in BOOLEAN :
    LET cfg == ProxyConfig(secretToken, None, filter)
        opts == [ProxyServiceOptions(cfg) EXCEPT
                   !.validator = IF handedValidator
                                   THEN Some(JwtValidatorNew(cfg.jwt))
                                   ELSE None]
    IN InitService(opts, VerifyClock, cfg)

\* a caller hands a request to validateAuthentication
AuthRequest ==
  /\ calls[1].pc = "idle"
  /\ \E req \in AuthRequests : ValidateAuthenticationCall(1, req)

AuthNext ==
  \/ AuthRequest
  \/ \E c \in 1..MaxCalls, o \in DiscoveryOutcomes : DiscoveryResponse(c, o)
  \/ \E c \in 1..MaxCalls : FetchJwks(c)
  \/ \E c \in 1..MaxCalls, o \in JwksOutcomes : JwksResponse(c, o)
  \/ \E c \in 1..MaxCalls : Verify(c)
  \/ \E c \in 1..MaxCalls : ValidateAuthenticationResume(c)
  \/ \E c \in 1..MaxCalls : NextRequest(c)

AuthSpec == AuthInit /\ [][AuthNext]_vars

----------------------------------------------------------------------------
(* Claims *)

IsPrefix(s, t) == Len(s) <= Len(t) /\ SubSeq(t, 1, Len(s)) = s

AllSteps == <<"decode", "kid", "getPublicKey", "verify", "validate">>

VerifyErrors == {"invalid signature", "jwt not active", "jwt expired",
                 "jwt audience invalid", "jwt issuer invalid"}

Closed(c) == calls[c].pc = "closed"
Done(c) == calls[c].pc \in {"done", "closed"}
Forwarded(c) == Closed(c) /\ Get(calls[c].out).kind = "forwarded"
Responded(c) == Closed(c) /\ Get(calls[c].out).kind = "response"

\* the bearer token of request c equals the configured non-empty secret
PresentsSecret(c) ==
  LET tok == BearerToken(Get(calls[c].req).authorization)
  IN /\ tok # None
     /\ config.proxy.secretToken # None
     /\ Get(config.proxy.secretToken) # ""
     /\ ~Get(tok).wellFormed
     /\ Get(tok).text = Get(config.proxy.secretToken)

\* C1: on every request handed to the forwarder, each header whose name
\* starts (case-insensitively) with authHeaderPrefix was written by the claim
\* mapper from the request's verified claims; no client-supplied header under
\* the prefix reaches upstream.
C1_OutboundAuthHeadersAreMapped ==
  \A c \in 1..MaxCalls :
    Forwarded(c) =>
      LET out == Get(calls[c].out).headers
          mapped == MapClaims(svc, Get(calls[c].result).claims)
          prefix == ToLowerCase(config.jwt.authHeaderPrefix)
      IN \A h \in DOMAIN out :
           (Len(h) >= Len(prefix)
              /\ \A i \in 1..Len(prefix) : LowerChar(h[i]) = prefix[i])
             => (h \in DOMAIN mapped /\ out[h] = mapped[h])

\* C1 witness: a request that carried headers under the prefix (in either
\* case) and another header was forwarded, the other header still on it
C1_Witness ==
  \E c \in 1..MaxCalls :
    /\ Forwarded(c)
    /\ <<"X", "-", "R">> \in DOMAIN Get(calls[c].req).headers
    /\ <<"o">> \in DOMAIN Get(calls[c].out).headers

\* C2: a request is forwarded only if its bearer credential equalled the
\* configured secret or the token validator accepted it; a request that
\* fails authentication gets a 401 UnauthorizedError response and is not
\* forwarded.
C2_ForwardOnlyAuthenticated ==
  \A c \in 1..MaxCalls :
    Closed(c) =>
      LET out == Get(calls[c].out)
          res == Get(calls[c].result)
      IN /\ out.kind = "forwarded" => (PresentsSecret(c) \/ res.ok)
         /\ ~res.ok => /\ out.kind = "response"
                       /\ out.status = 401
                       /\ out.error = "UnauthorizedError"

\* C2 witness: a request whose token the validator rejected was answered 401
C2_Witness ==
  \E c \in 1..MaxCalls :
    /\ Responded(c)
    /\ ~Get(calls[c].result).ok
    /\ Get(calls[c].out).status = 401

\* C3: a request whose bearer token equals the configured non-empty secret
\* never reaches JwtService.validateToken and is not answered 401.
C3_SecretBypassesValidator ==
  \A c \in 1..MaxCalls :
    (calls[c].via = "requestProcessor" /\ PresentsSecret(c)) =>
      /\ calls[c].steps = <<>>
      /\ Closed(c) => ~(Responded(c) /\ Get(calls[c].out).status = 401)

\* C4: for a configured maxCacheAge (0 included), getPublicKey never serves
\* a cache entry older than the configured maxCacheAge, and a key it returns
\* is either such a fresh entry or one the call fetched itself.
C4_NoStaleCacheHit ==
  \A c \in 1..MaxCalls :
    options.maxCacheAge # None =>
      /\ calls[c].hitAge # None =>
           Get(calls[c].hitAge) <= Get(options.maxCacheAge)
      /\ calls[c].publicKey # None =>
           (calls[c].hitAge # None \/ calls[c].cacheWrites = 1)

\* C5: a resolution of a key id cached less than maxCacheAge ago sends no
\* discovery and no JWKS request, uses the cached PEM and leaves the key
\* cache unchanged; once that age has elapsed the resolution is not served
\* from the cache but goes to the network (the JWKS request at once, or the
\* discovery request first when clearCache has reset jwksUri), and the JWKS
\* answer replaces the entry with the fetched PEM and cachedAt = now.
C5_CacheReuseAndRefetch ==
  [][\A c \in 1..MaxCalls :
       /\ (calls[c].pc = "idle" /\ calls'[c].keyId # None
             /\ keyCache[Get(calls'[c].keyId)] # None) =>
            LET entry == Get(keyCache[Get(calls'[c].keyId)])
            IN IF now - entry.cachedAt < svc.maxCacheAge
                 THEN /\ calls'[c].nDiscovery = 0
                      /\ calls'[c].nJwks = 0
                      /\ calls'[c].publicKey = Some(entry.key)
                      /\ keyCache' = keyCache
                 ELSE /\ calls'[c].publicKey = None
                      /\ keyCache' = keyCache
                      /\ IF jwksUri # None
                           THEN /\ calls'[c].nJwks = 1
                                /\ calls'[c].pc = "fetchingJwks"
                           ELSE /\ calls'[c].nDiscovery = 1
                                /\ calls'[c].pc = "discovering"
       /\ (calls[c].pc = "fetchingJwks" /\ calls'[c].pc = "gotKey") =>
            /\ calls'[c].publicKey # None
            /\ keyCache'[Get(calls[c].keyId)] =
                 Some([key |-> Get(calls'[c].publicKey), cachedAt |-> now])
    ]_vars

\* C5 witness: a call was served from the cache, another call of the same
\* key id went to the JWKS endpoint although the key had been cached, and
\* the entry now carries a later cachedAt
C5_Witness ==
  \E c, d \in 1..MaxCalls :
    /\ calls[c].hitAge # None /\ Get(calls[c].hitAge) > 0
    /\ calls[d].keyId = calls[c].keyId
    /\ calls[d].cacheWrites = 1
    /\ keyCache[Get(calls[c].keyId)] # None
    /\ Get(keyCache[Get(calls[c].keyId)]).cachedAt >= svc.maxCacheAge

\* C6: validateToken checks in the order format, kid, key resolution,
\* verification, claim filter and stops at the first failure: a malformed or
\* kid-less token is rejected with no discovery request, no JWKS request and
\* no key-cache read or write; verification runs only with a resolved key;
\* the filter is not evaluated when verification failed.
C6_ChecksInOrder ==
  \A c \in 1..MaxCalls :
    LET call == calls[c] IN
    call.pc # "idle" =>
      /\ IsPrefix(call.steps, AllSteps)
      /\ (call.token = None \/ ~Get(call.token).wellFormed) =>
           /\ call.steps = <<"decode">>
           /\ Done(c) /\ ~Get(call.result).ok
           /\ call.nDiscovery = 0 /\ call.nJwks = 0
           /\ call.cacheReads = 0 /\ call.cacheWrites = 0
           /\ keyCache = [k \in Kids |-> None]
      /\ (call.token # None /\ Get(call.token).wellFormed
            /\ Get(call.token).kid = None) =>
           /\ call.steps = <<"decode", "kid">>
           /\ Done(c) /\ ~Get(call.result).ok
           /\ call.nDiscovery = 0 /\ call.nJwks = 0
           /\ call.cacheReads = 0 /\ call.cacheWrites = 0
           /\ keyCache = [k \in Kids |-> None]
      /\ Len(call.steps) >= 4 => call.publicKey # None
      /\ (Done(c) /\ ~Get(call.result).ok) =>
           /\ Len(call.steps) <= 3 =>
                Get(call.result).error[2] \notin VerifyErrors
           /\ Get(call.result).error[2] \in VerifyErrors => Len(call.steps) = 4
      /\ (Done(c) /\ Get(call.result).ok) =>
           call.steps = IF svc.validator = None THEN SubSeq(AllSteps, 1, 4)
                        ELSE AllSteps

\* C6 witness: one call was stopped by jwt.verify before the filter ran
C6_Witness ==
  \E c \in 1..MaxCalls :
    /\ Done(c)
    /\ svc.validator # None
    /\ Get(calls[c].result).error[2] = "jwt expired"
    /\ Get(calls[c].token).role = Some(User)
    /\ calls[c].steps = SubSeq(AllSteps, 1, 4)

\* C7: a token whose payload lacks iss is rejected before key resolution:
\* no discovery request, no JWKS request, no key-cache write.
C7_MissingIssuerBeforeKeyResolution ==
  \A c \in 1..MaxCalls :
    (calls[c].token # None /\ Get(calls[c].token).wellFormed
       /\ Get(calls[c].token).kid # None /\ Get(calls[c].token).iss = None) =>
      /\ calls[c].nDiscovery = 0
      /\ calls[c].nJwks = 0
      /\ calls[c].cacheWrites = 0

\* C8: the service built by createProxyServer from a config with filter
\* rules rejects every token whose claims fail a rule, so no forwarded
\* JWT-authenticated request has claims that violate the configured filter.
C8_ForwardedClaimsPassFilter ==
  \A c \in 1..MaxCalls :
    (Forwarded(c) /\ Get(calls[c].result).ok) =>
      Validate(JwtValidatorNew(config.jwt),
               Some(Get(calls[c].result).claims)) = <<>>

\* C9: not in signature-only mode and for every configured clockTolerance
\* (0 included), an accepted token has now <= exp + clockTolerance,
\* now >= nbf - clockTolerance when nbf is present, iss equal to the issuer
\* and aud equal to the audience when one is configured.
C9_AcceptedWithinConfiguredTolerance ==
  \A c \in 1..MaxCalls :
    (Done(c) /\ Get(calls[c].result).ok /\ ~calls[c].signatureOnly
       /\ options.clockTolerance # None) =>
      LET t == Get(calls[c].token)
          tol == Get(options.clockTolerance)
          clock == Get(calls[c].verifiedAt) \div MsPerSecond
      IN /\ t.exp # None => clock <= Get(t.exp) + tol
         /\ t.nbf # None => clock >= Get(t.nbf) - tol
         /\ t.iss = Some(options.issuer)
         /\ options.audience # None => t.aud = options.audience

\* C10: in signature-only mode a token is accepted exactly when it is signed
\* by the resolved key, its iss is the issuer, its aud is the audience when
\* one is configured, it is active (nbf) and its claims pass the filter,
\* whatever its exp; the returned claims are the token's payload, exp
\* included.
C10_SignatureOnlyIgnoresOnlyExpiry ==
  \A c \in 1..MaxCalls :
    (Done(c) /\ calls[c].signatureOnly /\ calls[c].publicKey # None) =>
      LET t == Get(calls[c].token)
          res == Get(calls[c].result)
          clock == Get(calls[c].verifiedAt) \div MsPerSecond
          signed == Get(calls[c].publicKey).der[1] = t.signer
          issued == t.iss = Some(options.issuer)
          meant == options.audience = None \/ t.aud = options.audience
          active == t.nbf = None \/ Get(t.nbf) <= clock + svc.clockTolerance
          allowed == \/ options.validator = None
                     \/ \A i \in 1..Len(Get(options.validator).filter) :
                          LET m == Get(options.validator).filter[i]
                          IN /\ t[m.field] # None
                             /\ Get(t[m.field]) = Str(Get(m.value))
      IN /\ res.ok <=> (signed /\ issued /\ meant /\ active /\ allowed)
         /\ res.ok =>
              /\ DOMAIN res.claims =
                   {f \in {"iss", "aud", "exp", "nbf", "role"} : t[f] # None}
              /\ \A f \in DOMAIN res.claims : res.claims[f] = Get(t[f])

\* C10 witness: a token long expired was accepted in signature-only mode and
\* its exp returned
C10_Witness ==
  \E c \in 1..MaxCalls :
    /\ Done(c) /\ calls[c].signatureOnly
    /\ Get(calls[c].result).ok
    /\ options.validator # None /\ options.audience # None
    /\ Get(calls[c].token).exp = Some(VerifyEpoch - 30)
    /\ Get(calls[c].result).claims["exp"] = VerifyEpoch - 30

\* C11: a validateToken call given a public key in its options sends no
\* discovery request and no JWKS request, reads and writes no key-cache
\* entry, and verifies the signature against the given key: a token signed
\* by another key is rejected as an invalid signature.
C11_KeyOverrideBypassesResolver ==
  \A c \in 1..MaxCalls :
    LET call == calls[c] IN
    (call.keyOption # None /\ call.keyId # None) =>
      /\ call.nDiscovery = 0 /\ call.nJwks = 0
      /\ call.cacheReads = 0 /\ call.cacheWrites = 0
      /\ (Done(c) /\ Get(call.token).signer # Get(call.keyOption).der[1]) =>
           /\ ~Get(call.result).ok
           /\ Get(call.result).error[2] = "invalid signature"

\* C12: secretValidation returns claims exactly when the token is not
\* empty, a non-empty secret is configured and the two are equal; the
\* claims carry the configured issuer and audience, the fixed subject,
\* iat = the current time in seconds and exp = iat + 3600; in every other
\* case it returns undefined.
C12_SecretValidationIff ==
  returned.op = "secretValidation" =>
    LET token == returned.token
        secret == config.proxy.secretToken
        equal == /\ token # None /\ Get(token) # ""
                 /\ secret # None /\ Get(secret) # ""
                 /\ Get(token) = Get(secret)
    IN IF equal
         THEN /\ returned.result # None
              /\ LET claims == Get(returned.result)
                 IN /\ claims.iss = config.jwt.issuer
                    /\ claims.aud = config.jwt.audience
                    /\ claims.sub = "crun-jwt-auth-secret"
                    /\ claims.iat * 1000 <= now
                    /\ now < (claims.iat + 1) * 1000
                    /\ claims.exp = claims.iat + 3600
         ELSE returned.result = None

\* C12 witness: the secret was presented at second 100 and claims returned
C12_Witness ==
  /\ returned.op = "secretValidation"
  /\ returned.token = Some(Secret)
  /\ returned.result # None
  /\ Get(returned.result).exp = VerifyEpoch + 3600

\* C13: a request without Authorization header, or with an empty bearer
\* token, is answered 401 UnauthorizedError and not forwarded; no secret
\* comparison succeeds for it and it sends no discovery or JWKS request and
\* reads or writes no key-cache entry.
C13_MissingTokenUnauthorized ==
  \A c \in 1..MaxCalls :
    LET call == calls[c] IN
    (call.via = "requestProcessor"
       /\ \/ BearerToken(Get(call.req).authorization) = None
          \/ /\ ~Get(BearerToken(Get(call.req).authorization)).wellFormed
             /\ Get(BearerToken(Get(call.req).authorization)).text = "") =>
      /\ Done(c) /\ ~Get(call.result).ok
      /\ call.nDiscovery = 0 /\ call.nJwks = 0
      /\ call.cacheReads = 0 /\ call.cacheWrites = 0
      /\ SecretValidation(IF call.token = None THEN None
                          ELSE Some(Get(call.token).text), config, now) = None
      /\ Closed(c) => /\ Responded(c)
                      /\ Get(call.out).status = 401
                      /\ Get(call.out).error = "UnauthorizedError"

\* C13 witness: a request without Authorization header was answered
C13_Witness ==
  \E c \in 1..MaxCalls :
    /\ Responded(c)
    /\ Get(calls[c].req).authorization = None
    /\ config.proxy.secretToken = Some("")

\* C14: validate fails for every claim set that lacks the field of some
\* filter rule, whatever the rule's value or pattern.
C14_AbsentFieldFails ==
  (returned.op = "validate" /\ returned.input # None) =>
    ((\E i \in 1..Len(config.jwt.filter) :
        config.jwt.filter[i].field \notin DOMAIN Get(returned.input))
       => returned.message # <<>>)

\* C14 witness: a rule whose pattern matches the empty string failed on
\* claims without its field
C14_Witness ==
  /\ returned.op = "validate"
  /\ config.jwt.filter = <<Rule("role", <<"/", "/">>)>>
  /\ returned.input = Some([level |-> Num(5)])
  /\ returned.message = <<"No '", "role", "' found in JWT claim">>

\* a single rule passes on the claims
RulePasses(matcher, claims) ==
  /\ matcher.field \in DOMAIN claims
  /\ ~IsEmpty(claims[matcher.field])
  /\ IF claims[matcher.field].type = "array"
       THEN \E k \in 1..Len(claims[matcher.field].items) :
              validateEntry(Scalar(claims[matcher.field].items[k]), matcher)
       ELSE validateEntry(claims[matcher.field], matcher)

\* C15: validate succeeds exactly when every filter rule passes; when some
\* rule fails, the error is the one of the first failing rule in
\* configuration order and names that rule's field.
C15_AllRulesFirstFailureReported ==
  (returned.op = "validate" /\ returned.input # None) =>
    LET filter == Get(jwtValidator).filter
        claims == Get(returned.input)
        failing == {i \in 1..Len(filter) : ~RulePasses(filter[i], claims)}
    IN /\ returned.message = <<>> <=> failing = {}
       /\ failing # {} =>
            LET first == CHOOSE i \in failing : \A j \in failing : i <= j
            IN /\ \A i \in 1..Len(filter) :
                    filter[i].field = config.jwt.filter[i].field
               /\ IF Len(returned.message) = 3
                    THEN returned.message[2] = filter[first].field
                    ELSE returned.message[4] = filter[first].field

\* C15 witness: both rules of a filter failed and the first was reported
C15_Witness ==
  /\ returned.op = "validate"
  /\ Len(config.jwt.filter) = 2
  /\ returned.input = Some([role |-> User, level |-> Num(6)])
  /\ config.jwt.filter[1].field = "role"
  /\ returned.message =
       <<"Entry '", User.str, "' for '", "role", "' failed matcher">>

C17_ScalarComparesStringForm ==
  (returned.op = "validate" /\ returned.input # None
     /\ Len(Get(jwtValidator).filter) = 1
     /\ Get(jwtValidator).filter[1].field \in DOMAIN Get(returned.input)
     /\ Get(returned.input)[Get(jwtValidator).filter[1].field].type
          \in {"string", "number"}
     /\ ~IsEmpty(Get(returned.input)[Get(jwtValidator).filter[1].field]))
  => LET matcher == Get(jwtValidator).filter[1]
         entry == Get(returned.input)[matcher.field]
         text == IF entry.type = "number" THEN NumberToString(entry.num)
                 ELSE entry.str
     IN /\ matcher.value # None =>
             (returned.message = <<>> <=> text = Get(matcher.value))
        /\ matcher.regex # None =>
             (returned.message = <<>> <=> RegExpTest(Get(matcher.regex), text))

\* C18: the constructor keeps the rules in configuration order; a value
\* becomes a regex rule, with the text between the slashes as its pattern,
\* exactly when it starts and ends with '/'; every other value becomes an
\* exact-value rule holding the whole value.
C18_RegexNeedsBothSlashes ==
  jwtValidator # None =>
    LET configured == config.jwt.filter
        filter == Get(jwtValidator).filter
    IN /\ Len(filter) = Len(configured)
       /\ \A i \in 1..Len(configured) :
            LET value == configured[i].value
            IN /\ filter[i].field = configured[i].field
               /\ IF Len(value) >= 2 /\ value[1] = "/" /\ value[Len(value)] = "/"
                    THEN /\ filter[i].regex =
                              Some(SubSeq(value, 2, Len(value) - 1))
                         /\ filter[i].value = None
                    ELSE /\ filter[i].value = Some(value)
                         /\ filter[i].regex = None

\* C19: map returns a header for exactly the mapper rules whose source
\* field is present in the claims (when two such rules name one header, the
\* later rule's value stands); the value is the string form of a scalar,
\* the elements joined with ',' for an array, compact JSON for an object.
C19_MapPresentFields ==
  (returned.op = "map" /\ returned.input # None) =>
    LET mapper == Get(jwtValidator).mapper
        claims == Get(returned.input)
        present == {i \in 1..Len(mapper) : mapper[i].field \in DOMAIN claims}
        value(entry) ==
          CASE entry.type = "string" -> entry.str
            [] entry.type = "number" -> NumberToString(entry.num)
            [] entry.type = "array" -> Join(entry.items, <<",">>)
            [] OTHER -> JsonStringify(entry)
    IN /\ mapper = config.jwt.mapper
       /\ DOMAIN returned.result = {mapper[i].header : i \in present}
       /\ \A i \in present :
            (\A j \in present : mapper[j].header = mapper[i].header => j <= i)
              => returned.result[mapper[i].header] = value(claims[mapper[i].field])

\* C19 witness: of three rules two had their field in the claims; the
\* object became compact JSON
C19_Witness ==
  /\ returned.op = "map"
  /\ Len(config.jwt.mapper) = 3
  /\ returned.input # None
  /\ DOMAIN returned.result = {<<"X", "-", "r">>, <<"X", "-", "d">>}
  /\ returned.result[<<"X", "-", "r">>] = Admin.str
  /\ returned.result[<<"X", "-", "d">>] =
       <<"{", "\"", "k", "\"", ":", "\"", "v", "\"", "}">>

\* C20: every forwarded request carries, for each mapper rule whose source
\* claim is among the authenticated claims, the rule's header with the
\* projected value.
C20_ForwardedCarriesMappedHeaders ==
  \A c \in 1..MaxCalls :
    (Forwarded(c) /\ Get(calls[c].result).ok) =>
      LET claims == Get(calls[c].result).claims
          headers == Get(calls[c].out).headers
          mapper == config.jwt.mapper
      IN \A i \in 1..Len(mapper) :
           mapper[i].field \in DOMAIN claims =>
             /\ mapper[i].header \in DOMAIN headers
             /\ headers[mapper[i].header] = Project(claims[mapper[i].field])

\* C21: validation of a JwtConfig accepts its mapper exactly when every
\* destination header starts, whatever the case, with authHeaderPrefix.
DestinationsInPrefix(jwtConfig) ==
  \A i \in 1..Len(jwtConfig.mapper) :
    StartsWith(ToLowerCase(jwtConfig.mapper[i].header),
               ToLowerCase(jwtConfig.authHeaderPrefix))

C21_MapperDestinationsValidated ==
  returned.op = "validateConfig" =>
    (("mapper" \notin returned.errors) <=> DestinationsInPrefix(returned.input))

\* the constraint taken alone: valid exactly for such mappers, and the
\* header it reports is the first offending one in configuration order
MapperConstraintAlone ==
  returned.op = "isMapperKeysValid" =>
    LET value == returned.input.mapper
        prefix == ToLowerCase(returned.input.authHeaderPrefix)
    IN  /\ returned.result.valid <=> DestinationsInPrefix(returned.input)
        /\ ~returned.result.valid =>
             \E i \in 1..Len(value) :
               /\ returned.result.invalidHeader = Some(value[i].header)
               /\ ~StartsWith(ToLowerCase(value[i].header), prefix)
               /\ \A j \in 1..(i - 1) :
                    StartsWith(ToLowerCase(value[j].header), prefix)

\* the configured base URL with one trailing slash removed
BaseUrlPattern(base) ==
  IF base # <<>> /\ base[Len(base)] = "/"
    THEN SubSeq(base, 1, Len(base) - 1)
    ELSE base

\* a non-empty base URL is configured
BaseUrlConfigured ==
  GetProxyBaseUrl(config) # None /\ Get(GetProxyBaseUrl(config)) # <<>>

C23_BaseUrlStripped ==
  \A c \in 1..MaxCalls :
    (Closed(c) /\ calls[c].via = "requestProcessor" /\ BaseUrlConfigured
       /\ Get(calls[c].result).ok) =>
      LET pattern == BaseUrlPattern(Get(GetProxyBaseUrl(config)))
          url == Get(calls[c].req).url
          out == Get(calls[c].out)
      IN \A rest \in {SubSeq(url, i, Len(url)) : i \in 1..(Len(url) + 1)} :
           url = pattern \o rest =>
             /\ out.kind = "forwarded"
             /\ out.url = IF rest = <<>> THEN <<"/">> ELSE rest

\* C23 witness: under the base URL "/a/" the URL "/a" was forwarded as "/"
C23_Witness ==
  \E c \in 1..MaxCalls :
    /\ Forwarded(c)
    /\ GetProxyBaseUrl(config) = Some(<<"/", "a", "/">>)
    /\ Get(calls[c].req).url = <<"/", "a">>
    /\ Get(calls[c].out).url = <<"/">>

\* C24: from the return of clearCache with no key resolution under way until
\* the next validateToken call the key cache is empty, and that call's key
\* lookup is a miss that sends a discovery request and, once discovery
\* has answered, a JWKS request.
C24_ClearCacheForcesRefetch ==
  /\ (returned.op = "clearCache" /\ ~returned.resolving) =>
       /\ \A k \in Kids : keyCache[k] = None
       /\ jwksUri = None
  /\ \A c \in 1..MaxCalls :
       LET call == calls[c] IN
       (call.afterClear /\ call.keyId # None) =>
         /\ call.hitAge = None
         /\ call.nDiscovery = 1
         /\ \/ call.pc \in {"discovering", "discovered"}
            \/ call.nJwks = 1
            \/ /\ call.pc = "done" /\ ~Get(call.result).ok
               /\ Get(call.result).error[2] \in
                    {"Failed to discover JWKS URI",
                     "Failed to discover JWKS URI: JWKS URI not found in OpenID configuration",
                     "JWKS URI not available"}

\* C24 witness: a key cached at the current instant was cleared, and the
\* next call for the same key id fetched discovery and the JWKS again
C24_Witness ==
  \E c, d \in 1..MaxCalls :
    /\ calls[c].pc = "done" /\ calls[c].cacheWrites = 1
    /\ calls[d].afterClear
    /\ calls[d].keyId = calls[c].keyId
    /\ calls[d].nDiscovery = 1 /\ calls[d].nJwks = 1
    /\ calls[d].cacheWrites = 1
    /\ now = 0

Missed(c) == calls[c].keyId # None /\ calls[c].hitAge = None

PemsOf(k) ==
  UNION { { jwkToPem(doc[i]) :
              i \in { j \in 1..Len(doc) :
                        doc[j].kid = k /\ JwkConvertible(doc[j]) } } :
          doc \in JwksDocs }

\* C27: under every interleaving of concurrent misses, a key-cache entry
\* under key id k holds both the PEM converted from a JWKS entry whose kid is
\* k and a cachedAt that is no later than now, and the key a lookup was
\* served from the cache is such a PEM of its own key id.
C27_CacheEntriesWhole ==
  /\ \A k \in Kids :
       keyCache[k] # None =>
         /\ DOMAIN Get(keyCache[k]) = {"key", "cachedAt"}
         /\ Get(keyCache[k]).key \in PemsOf(k)
         /\ Get(keyCache[k]).cachedAt \in 0..now
  /\ \A c \in 1..MaxCalls :
       calls[c].hitAge # None =>
         /\ calls[c].publicKey # None
         /\ Get(calls[c].publicKey) \in PemsOf(Get(calls[c].keyId))
         /\ Get(calls[c].hitAge) \in 0..now

\* C27 witness: two calls missed on the same key id and each wrote the
\* entry, from JWKS answers holding different keys; the entry holds the PEM
\* of one of them
C27_Witness ==
  \E c, d \in 1..MaxCalls :
    /\ Missed(c) /\ Missed(d)
    /\ calls[c].keyId = calls[d].keyId
    /\ calls[c].cacheWrites = 1 /\ calls[d].cacheWrites = 1
    /\ calls[c].publicKey # calls[d].publicKey
    /\ keyCache[Get(calls[c].keyId)] # None
    /\ Get(keyCache[Get(calls[c].keyId)]).key = Get(calls[d].publicKey)

\* the secrets a configuration may hold
SecretTokens == {None, Some(""), Some(Secret), Some("other")}

C29_OtherValuesAreInternalServerError ==
  returned.op = "errorHandler" =>
    LET error == returned.input
        res == returned.result
    IN /\ res.status \in {400, 401, 500}
       /\ DOMAIN res = {"kind", "status", "error", "message"}
       /\ (error.http /\ error.name = "BadRequestError") => res.status = 400
       /\ (error.http /\ error.name = "UnauthorizedError") => res.status = 401
       /\ (~error.http \/ error.name \notin {"BadRequestError",
                                             "UnauthorizedError"}) =>
            (res.status = 500 /\ res.error = "InternalServerError")

\* C29, amended: every response of errorHandler has status 400, 401 or 500
\* and the fields error and message; BadRequestError gives 400,
\* UnauthorizedError 401, and every other thrown value 500.  The error field
\* is the name of the thrown Error, its own name for an Error that is no
\* HttpError, and UnknownError with the message "Unknown error: <value>" for
\* a value that is no Error.
C29_ErrorFieldIsThrownName ==
  returned.op = "errorHandler" =>
    LET error == returned.input
        res == returned.result
    IN /\ res.status \in {400, 401, 500}
       /\ DOMAIN res = {"kind", "status", "error", "message"}
       /\ (error.http /\ error.name = "BadRequestError") => res.status = 400
       /\ (error.http /\ error.name = "UnauthorizedError") => res.status = 401
       /\ (~error.http \/ error.name \notin {"BadRequestError",
                                             "UnauthorizedError"}) =>
            res.status = 500
       /\ error.isError =>
            (res.error = error.name /\ res.message = error.message)
       /\ ~error.isError =>
            /\ res.error = "UnknownError"
            /\ res.message = <<"Unknown error: ", error.value>>

\* C29 witness: a TypeError was answered 500 under its own name
C29_Witness ==
  /\ returned.op = "errorHandler"
  /\ returned.input = PlainError("TypeError", <<"x is not a function">>)
  /\ returned.result.status = 500
  /\ returned.result.error = "TypeError"

\* C30: a validateToken call sends at most one discovery request and at most
\* one JWKS request; when either request fails the call ends at once with
\* the failure, having stored no key, and a call that has ended sends
\* nothing more.
C30_NoRetryWithinCall ==
  [][\A c \in 1..MaxCalls :
       /\ calls'[c].nDiscovery <= 1
       /\ calls'[c].nJwks <= 1
       /\ (calls[c].pc \in {"discovering", "fetchingJwks"}
             /\ calls'[c].pc = "done") =>
            /\ ~Get(calls'[c].result).ok
            /\ calls'[c].nDiscovery = calls[c].nDiscovery
            /\ calls'[c].nJwks = calls[c].nJwks
            /\ calls'[c].publicKey = None
            /\ calls'[c].cacheWrites = 0
            /\ keyCache' = keyCache
       /\ calls[c].pc = "done" => calls'[c] = calls[c]
    ]_vars

\* C30 witness: one call ended with a failed discovery after one discovery
\* request and no JWKS request, another with a failed JWKS request after
\* one request of each
C30_Witness ==
  \E c, d \in 1..MaxCalls :
    /\ calls[c].pc = "done" /\ ~Get(calls[c].result).ok
    /\ Get(calls[c].result).error[2] = "Failed to discover JWKS URI"
    /\ calls[c].nDiscovery = 1 /\ calls[c].nJwks = 0
    /\ calls[d].pc = "done" /\ ~Get(calls[d].result).ok
    /\ Get(calls[d].result).error[2] = "Failed to fetch JWKS"
    /\ calls[d].nDiscovery = 1 /\ calls[d].nJwks = 1

\* C31: when every network request settles, every validateToken call made
\* for a request completes with claims or an error, and the request is then
\* forwarded or answered with an error response.
C31_EveryRequestCompletes ==
  \A c \in 1..MaxCalls :
    /\ (calls[c].pc \notin {"idle", "closed"}) ~>
         (calls[c].pc = "done" /\ calls[c].result # None)
    /\ (calls[c].pc # "idle") ~>
         (Closed(c) /\ Get(calls[c].out).kind \in {"forwarded", "response"})

\* C31 witness: a request whose validateToken call sent a discovery request
\* and a JWKS request was answered after the JWKS request failed
C31_Witness ==
  \E c \in 1..MaxCalls :
    /\ Responded(c)
    /\ calls[c].nDiscovery = 1 /\ calls[c].nJwks = 1
    /\ ~Get(calls[c].result).ok
    /\ Get(calls[c].result).error[2] = "Failed to fetch JWKS"

\* C32: a request whose token was rejected is answered 401 without its URL
\* being looked at, whether or not the URL is under the base URL; 400 is
\* answered only to requests whose token was accepted; and for those the
\* incoming auth headers are removed and the claim headers written before the
\* URL is rewritten, the hand-over to the forwarder being the last step.
C32_AuthenticationBeforePath ==
  \A c \in 1..MaxCalls :
    (Closed(c) /\ calls[c].via = "requestProcessor") =>
      LET out == Get(calls[c].out)
          res == Get(calls[c].result)
      IN /\ ~res.ok => /\ out.kind = "response" /\ out.status = 401
                       /\ out.did = <<"errorHandler">>
         /\ (out.kind = "response" /\ out.status = 400) => res.ok
         /\ res.ok =>
              /\ SubSeq(out.did, 1, 4) =
                   <<"removeAllIncomingAuthHeaders", "mapClaims",
                     "setHeaders", "rewriteBaseUrlByStrippingBaseUrl">>
              /\ Len(out.did) = 5
              /\ out.did[5] = IF out.kind = "forwarded" THEN "proxy.web"
                              ELSE "errorHandler"

\* C32 witness: a request with a rejected token and a URL outside the
\* configured base URL was answered 401
C32_Witness ==
  \E c \in 1..MaxCalls :
    /\ Responded(c)
    /\ ~Get(calls[c].result).ok
    /\ GetProxyBaseUrl(config) = Some(<<"/", "a">>)
    /\ Get(calls[c].req).url = <<"/", "o">>
    /\ Get(calls[c].out).status = 401

\* C33: a key lookup that misses more than maxCacheAge after the last
\* successful discovery sends the discovery request again, before any JWKS
\* request.
C33_DiscoveryExpires ==
  [][\A c \in 1..MaxCalls :
       (calls[c].pc = "idle" /\ calls'[c].keyId # None
          /\ calls'[c].hitAge = None
          /\ configCache # None
          /\ now - Get(configCache).cachedAt > svc.maxCacheAge) =>
         /\ calls'[c].pc = "discovering"
         /\ calls'[c].nDiscovery = 1
         /\ calls'[c].nJwks = 0
    ]_vars

\* C34: the step in which a key resolution fails (discovery failed or without
\* jwks_uri, JWKS request failed, no entry with the key id, entry not
\* convertible) leaves every key-cache entry as it was, and the call has
\* written none.
C34_FailedResolutionKeepsCache ==
  [][\A c \in 1..MaxCalls :
       (Resolving(calls[c]) /\ calls'[c].pc = "done") =>
         /\ ~Get(calls'[c].result).ok
         /\ Get(calls'[c].result).error[2] \in
              {"Failed to discover JWKS URI",
               "Failed to discover JWKS URI: JWKS URI not found in OpenID configuration",
               "JWKS URI not available",
               "Failed to fetch JWKS",
               "Public key not found for key ID",
               "Unsupported or invalid key"}
         /\ keyCache' = keyCache
         /\ calls'[c].cacheWrites = 0
    ]_vars

\* C34 witness: with k1 cached, the resolution of k2 failed for want of a
\* JWKS entry with that kid, and k1 is still cached
C34_Witness ==
  \E c \in 1..MaxCalls :
    /\ calls[c].pc = "done" /\ ~Get(calls[c].result).ok
    /\ calls[c].keyId = Some("k2")
    /\ Get(calls[c].result).error[2] = "Public key not found for key ID"
    /\ keyCache["k1"] # None
    /\ keyCache["k2"] = None

\* C35: a key resolution whose JWKS request was sent before clearCache does
\* not put its key into the cleared cache: from the return of a clearCache
\* that found every resolution under way with its JWKS request out, until
\* the next validateToken call, the key cache stays empty, so that call is
\* not served a key from a JWKS answer requested before the clear.
C35_NoRepopulationAfterClear ==
  (returned.op = "clearCache" /\ returned.jwksRequested) =>
    \A k \in Kids : keyCache[k] = None

\* C36: a request forwarded under a configured base URL that begins with "/"
\* and whose own URL begins with "/" goes out with a URL that begins with
\* "/".
C36_ForwardedUrlKeepsLeadingSlash ==
  \A c \in 1..MaxCalls :
    (Forwarded(c) /\ BaseUrlConfigured
       /\ StartsWith(Get(GetProxyBaseUrl(config)), <<"/">>)
       /\ StartsWith(Get(calls[c].req).url, <<"/">>)) =>
      StartsWith(Get(calls[c].out).url, <<"/">>)

\* the first word of the request's Authorization header, None without one
SchemeWord(req) ==
  IF req.authorization = None \/ Get(req.authorization) = <<>> THEN None
  ELSE Some(Get(req.authorization)[1])

\* C37: a request whose Authorization header names a scheme other than
\* Bearer is never authenticated: it is answered with UnauthorizedError and
\* not forwarded.
C37_OnlyBearerAuthenticates ==
  \A c \in 1..MaxCalls :
    (Closed(c) /\ SchemeWord(Get(calls[c].req))
                    \notin {None, Some(Opaque("Bearer"))}) =>
      /\ Get(calls[c].out).kind = "response"
      /\ Get(calls[c].out).error = "UnauthorizedError"

\* validateAuthentication has returned claims to its caller
Authenticated(c) ==
  /\ Closed(c)
  /\ calls[c].via = "validateAuthentication"
  /\ Get(calls[c].out).kind = "returned"

Times(step, did) == Cardinality({i \in DOMAIN did : did[i] = step})

\* C39: every request the handler is done with was either handed to
\* proxy.web once with no error response written, or answered by
\* errorHandler once with proxy.web never called; the step that decides is
\* the last one.
C39_ForwardedXorAnswered ==
  \A c \in 1..MaxCalls :
    Closed(c) =>
      LET out == Get(calls[c].out)
          forwards == Times("proxy.web", out.did)
          answers == Times("errorHandler", out.did)
      IN /\ forwards + answers = 1
         /\ (out.kind = "forwarded") = (forwards = 1)
         /\ (out.kind = "response") = (answers = 1)
         /\ out.did[Len(out.did)] \in {"proxy.web", "errorHandler"}

\* a request that failed in the last step of requestProcessor: answered
\* with 400 and not forwarded
C39_Witness ==
  /\ Closed(1)
  /\ Get(calls[1].out).kind = "response"
  /\ Get(calls[1].out).status = 400
  /\ Len(Get(calls[1].out).did) = Len(PipelineSteps) + 1

====
